---- MODULE Spec2Model ----
(***************************************************************************)
(* Ingestion-and-notification pipeline of cbnu-notice: the notice store    *)
(* (src/src/db.rs), the crawl orchestrator (src/src/main.rs), the channel  *)
(* broadcaster (src/src/notifier.rs), the DM matching and delivery engine  *)
(* (src/src/dm_engine.rs), the command front end                           *)
(* (src/src/bot_commands.rs), the listing parsers (src/src/parser), the    *)
(* classifier (src/src/category.rs) and the deadline extractor             *)
(* (src/src/deadline.rs).                                                  *)
(*                                                                         *)
(* Strings are sequences of characters.  A Latin letter, a digit, a space  *)
(* or a punctuation mark is a one-character TLA+ string; a Hangul syllable *)
(* is written as its romanisation, which always has two or more letters    *)
(* ("jang", "hak"), so the two alphabets never collide.                    *)
(***************************************************************************)
EXTENDS Integers, Sequences, FiniteSets, TLC

----------------------------------------------------------------------------
(* Strings                                                                 *)

Upper == <<"A","B","C","D","E","F","G","H","I","J","K","L","M",
           "N","O","P","Q","R","S","T","U","V","W","X","Y","Z">>

Lower == <<"a","b","c","d","e","f","g","h","i","j","k","l","m",
           "n","o","p","q","r","s","t","u","v","w","x","y","z">>

\* char::to_lowercase for one character: Latin capitals fold, Hangul has no case.
LowerChar(c) ==
  IF \E i \in 1..Len(Upper) : Upper[i] = c
  THEN Lower[CHOOSE i \in 1..Len(Upper) : Upper[i] = c]
  ELSE c

\* str::to_lowercase
to_lowercase(s) == [i \in 1..Len(s) |-> LowerChar(s[i])]

\* str::contains(needle): needle occurs as a contiguous run; "" occurs everywhere.
contains(hay, needle) ==
  \E i \in 0..(Len(hay) - Len(needle)) :
    \A j \in 1..Len(needle) : hay[i + j] = needle[j]

----------------------------------------------------------------------------
(* Classifier (src/src/category.rs)                                        *)

AcademicKeywords ==
  << <<"su","gang">>, <<"hak","jeom">>, <<"seong","jeok">>, <<"jol","eop">>,
     <<"hyu","hak">>, <<"bok","hak">>, <<"jeon","gwa">>, <<"jae","ip","hak">>,
     <<"su","eop">>, <<"hak","sa","il","jeong">>, <<"gyo","yuk","gwa","jeong">>,
     <<"yi","su">>, <<"hak","gi">>, <<"pyeon","ip">>,
     <<"deung","rok","geum"," ","nap","bu">>, <<"hak","wi">> >>

ScholarshipKeywords ==
  << <<"jang","hak">>, <<"hak","ja","geum">>,
     <<"deung","rok","geum"," ","gam","myeon">>, <<"guk","ga","jang","hak">>,
     <<"gyo","nae","jang","hak">>, <<"geun","ro","jang","hak">> >>

RecruitKeywords ==
  << <<"chae","yong">>, <<"in","sa">>, <<"gong","mu","jik">>,
     <<"gye","yak","jik">>, <<"gyo","won">>, <<"jo","gyo">>,
     <<"gang","sa"," ","chae","yong">>, <<"jik","won">>,
     <<"hap","gyeok","ja">>, <<"gyeong","jaeng","chae","yong">> >>

ContestKeywords ==
  << <<"mo","jip">>, <<"gong","mo">>, <<"seon","bal">>,
     <<"sin","cheong"," ","an","nae">>, <<"jeop","su">>, <<"ji","won","ja">>,
     <<"cham","ga","ja">>, <<"dae","hoe">>, <<"gong","mo","jeon">> >>

EventKeywords ==
  << <<"teuk","gang">>, <<"se","mi","na">>, <<"wo","keu","syop">>,
     <<"seol","myeong","hoe">>, <<"po","reom">>, <<"haeng","sa">>,
     <<"chuk","je">>, <<"gong","yeon">>, <<"jeon","si">>, <<"cho","cheong">> >>

\* The rule table with the contest rule ahead of the scholarship rule.
rules_contest_first ==
  << [keywords |-> AcademicKeywords,    category |-> "academic"],
     [keywords |-> ContestKeywords,     category |-> "contest"],
     [keywords |-> RecruitKeywords,     category |-> "recruit"],
     [keywords |-> ScholarshipKeywords, category |-> "scholarship"],
     [keywords |-> EventKeywords,       category |-> "event"] >>

\* The rule table of classify, in its source order.
rules ==
  << [keywords |-> AcademicKeywords,    category |-> "academic"],
     [keywords |-> ScholarshipKeywords, category |-> "scholarship"],
     [keywords |-> RecruitKeywords,     category |-> "recruit"],
     [keywords |-> ContestKeywords,     category |-> "contest"],
     [keywords |-> EventKeywords,       category |-> "event"] >>

\* keywords.iter().any(|k| t.contains(k))
RuleMatches(r, t) ==
  \E k \in 1..Len(rules[r].keywords) : contains(t, rules[r].keywords[k])

\* Category::classify(title).as_str(): the first rule with a keyword in the
\* lower-cased title, "general" when there is none.
classify(title) ==
  LET t == to_lowercase(title)
      hits == {r \in 1..Len(rules) : RuleMatches(r, t)}
  IN IF hits = {} THEN "general"
     ELSE rules[CHOOSE r \in hits : \A q \in hits : r <= q].category

----------------------------------------------------------------------------
(* Model domains                                                           *)

\* Configured sources (config.sources), in configuration order; all enabled.
SourceOrder == <<"biz", "main">>

Sources == {SourceOrder[i] : i \in 1..Len(SourceOrder)}

\* Telegram ids of the people who talk to the bot.
Users == {100, 200}

\* "AI jang-hak mo-jip": a scholarship term and a contest term, Latin capitals.
TitleScholar == <<"A","I"," ","jang","hak"," ","mo","jip">>

\* "chae-yong gong-go ai": a recruitment notice.
TitleRecruit == <<"chae","yong"," ","gong","go"," ","a","i">>

\* "do-ro bo-su 3.5kkaji": matches no rule; a month-day date in front of a
\* deadline keyword.
TitlePlain == <<"do","ro"," ","bo","su"," ","3",".","5","kka","ji">>

Titles == {TitleScholar, TitleRecruit, TitlePlain}

\* Keywords a user may subscribe to (already trimmed, non-empty, at most 50 bytes).
KwAi == <<"A","i">>

KwScholar == <<"jang","hak">>

Keywords == {KwAi, KwScholar}

\* SQL NULL of a text column.
NULL == "NULL"

\* SQL NULL of a timestamp column.
NoTime == -1

\* SQL NULL of the deadline column.
NoDeadline == << >>

\* Rows of the listing pages the sources can serve: RawNotice values
\* (the category hint and the pinned flag are dead code and left out;
\* author and date are optional).
RawA == [notice_id |-> "1", title |-> TitleScholar, url |-> "u1",
         author |-> "kim", date |-> "2026-03-01"]

\* The same source-local id as RawA after the page edited its title, link,
\* author and date.
RawAEdited == [notice_id |-> "1", title |-> TitleRecruit, url |-> "u1b",
               author |-> "lee", date |-> "2026-03-02"]

RawB == [notice_id |-> "2", title |-> TitlePlain, url |-> "u2",
         author |-> NULL, date |-> NULL]

RawNotices == {RawA, RawAEdited, RawB}

----------------------------------------------------------------------------
(* State                                                                   *)

VARIABLES
  notices,       \* table notices: sequence of rows, row i has surrogate id i
  crawl_state,   \* table crawl_state: source_key -> row
  users,         \* table users: telegram_id -> row
  keyword_subs,  \* table keyword_subs: set of <<telegram_id, keyword>>
  source_subs,   \* table source_subs: set of <<telegram_id, source_key>>
  dm_log,        \* table dm_log: set of rows, unique per (notice_id, telegram_id)
  now,           \* wall clock, in days
  cycle,         \* position of the crawl loop inside do_crawl
  dm,            \* locals of DmEngine::process while a DM pass runs
  obs            \* observations of calls, sends and results (history)

vars == <<notices, crawl_state, users, keyword_subs, source_subs, dm_log,
          now, cycle, dm, obs>>

store == <<notices, crawl_state, users, keyword_subs, source_subs, dm_log>>

----------------------------------------------------------------------------
(* Notice store (src/src/db.rs)                                            *)

\* A crawl_state row that does not exist.
NoCrawlRow ==
  [exists |-> FALSE, last_crawled |-> NoTime, last_notice_id |-> NULL,
   error_count |-> 0]

\* A users row that does not exist.
NoUserRow == [exists |-> FALSE, is_active |-> FALSE]

\* Database::init on an empty file: six empty tables.
EmptyNotices == << >>

EmptyCrawlState == [s \in Sources |-> NoCrawlRow]

EmptyUsers == [u \in Users |-> NoUserRow]

\* UNIQUE(source_key, notice_id): the rows a (source_key, notice_id) pair hits.
NoticeRowsOf(tbl, source_key, notice_id) ==
  {i \in 1..Len(tbl) :
     tbl[i].source_key = source_key /\ tbl[i].notice_id = notice_id}

\* insert_if_new, with INSERT OR REPLACE in place of INSERT OR IGNORE: the
\* conflicting row is deleted and a fresh one (notified = 0) takes its place.
insert_if_new_replace(tbl, source_key, notice, t) ==
  LET row == [source_key |-> source_key, notice_id |-> notice.notice_id,
              title |-> notice.title, url |-> notice.url, author |-> notice.author,
              category |-> classify(notice.title), published |-> notice.date,
              deadline |-> NoDeadline, crawled_at |-> t, notified |-> FALSE]
      hit == NoticeRowsOf(tbl, source_key, notice.notice_id)
  IN IF hit = {} THEN Append(tbl, row)
     ELSE [i \in 1..Len(tbl) |-> IF i \in hit THEN row ELSE tbl[i]]

\* insert_if_new as a plain INSERT on a table without the UNIQUE constraint.
insert_if_new_append(tbl, source_key, notice, t) ==
  Append(tbl, [source_key |-> source_key, notice_id |-> notice.notice_id,
               title |-> notice.title, url |-> notice.url, author |-> notice.author,
               category |-> classify(notice.title), published |-> notice.date,
               deadline |-> NoDeadline, crawled_at |-> t, notified |-> FALSE])

\* insert_if_new as an upsert: ON CONFLICT DO UPDATE refreshes what the page
\* shows of the notice (title, url, author, category, date).
insert_if_new_upsert(tbl, source_key, notice, t) ==
  LET hit == NoticeRowsOf(tbl, source_key, notice.notice_id)
  IN IF hit = {} THEN insert_if_new_append(tbl, source_key, notice, t)
     ELSE [i \in 1..Len(tbl) |->
             IF i \in hit
             THEN [tbl[i] EXCEPT !.title = notice.title, !.url = notice.url,
                                 !.author = notice.author, !.published = notice.date,
                                 !.category = classify(notice.title)]
             ELSE tbl[i]]

\* insert_if_new, the notices table: INSERT OR IGNORE with the category
\* computed from the title; AUTOINCREMENT gives the next surrogate id.
insert_if_new(tbl, source_key, notice, t) ==
  LET row == [source_key |-> source_key, notice_id |-> notice.notice_id,
              title |-> notice.title, url |-> notice.url, author |-> notice.author,
              category |-> classify(notice.title), published |-> notice.date,
              deadline |-> NoDeadline, crawled_at |-> t, notified |-> FALSE]
  IN IF NoticeRowsOf(tbl, source_key, notice.notice_id) = {}
     THEN Append(tbl, row)
     ELSE tbl

\* insert_if_new, its result: affected > 0.
insert_if_new_result(tbl, source_key, notice) ==
  NoticeRowsOf(tbl, source_key, notice.notice_id) = {}

\* insert_if_new, the crawl_state table: a row for the source is created
\* when there is none (ON CONFLICT DO NOTHING).
insert_if_new_state(cs, source_key, t) ==
  IF cs[source_key].exists THEN cs
  ELSE [cs EXCEPT ![source_key] =
          [exists |-> TRUE, last_crawled |-> t, last_notice_id |-> NULL,
           error_count |-> 0]]

\* get_pending, the WHERE clause: ids of the rows with notified = 0.
PendingIds(tbl) == {i \in 1..Len(tbl) : ~tbl[i].notified}

\* mark_notified: UPDATE notices SET notified = 1 WHERE id = ?1.
mark_notified(tbl, id) ==
  [i \in 1..Len(tbl) |->
     IF i = id THEN [tbl[i] EXCEPT !.notified = TRUE] ELSE tbl[i]]

\* set_deadline: UPDATE notices SET deadline = ?1 WHERE id = ?2.
set_deadline(tbl, id, deadline) ==
  [i \in 1..Len(tbl) |->
     IF i = id THEN [tbl[i] EXCEPT !.deadline = deadline] ELSE tbl[i]]

\* update_crawl_state without the reset of error_count.
update_crawl_state_noreset(cs, source_key, t, last_id) ==
  [cs EXCEPT ![source_key] =
     [exists |-> TRUE, last_crawled |-> t,
      last_notice_id |-> IF last_id # NULL THEN last_id
                         ELSE cs[source_key].last_notice_id,
      error_count |-> cs[source_key].error_count]]

\* update_crawl_state: upsert; COALESCE keeps the old watermark when the
\* new one is NULL; error_count = 0.
\* update_crawl_state without COALESCE: the watermark is what the page gave.
update_crawl_state_overwrite(cs, source_key, t, last_id) ==
  [cs EXCEPT ![source_key] =
     [exists |-> TRUE, last_crawled |-> t, last_notice_id |-> last_id,
      error_count |-> 0]]

update_crawl_state(cs, source_key, t, last_id) ==
  [cs EXCEPT ![source_key] =
     [exists |-> TRUE, last_crawled |-> t,
      last_notice_id |-> IF last_id # NULL THEN last_id
                         ELSE cs[source_key].last_notice_id,
      error_count |-> 0]]

\* increment_error, the upsert: a new row starts at 1, an existing row gets
\* error_count + 1; last_crawled is overwritten in both cases.
increment_error(cs, source_key, t) ==
  IF cs[source_key].exists
  THEN [cs EXCEPT ![source_key].last_crawled = t,
                  ![source_key].error_count = @ + 1]
  ELSE [cs EXCEPT ![source_key] =
          [exists |-> TRUE, last_crawled |-> t, last_notice_id |-> NULL,
           error_count |-> 1]]

\* increment_error, its result: the error_count read back after the upsert.
increment_error_result(cs, source_key, t) ==
  increment_error(cs, source_key, t)[source_key].error_count

\* reset_error: UPDATE crawl_state SET error_count = 0 (no row, no effect).
reset_error(cs, source_key) ==
  IF cs[source_key].exists
  THEN [cs EXCEPT ![source_key].error_count = 0]
  ELSE cs

\* register_user: upsert; an existing row gets is_active = 1 again.
\* (username and first_name are stored and never read back.)
\* register_user without its WHERE: every user row is written.
register_user_all(us, telegram_id) ==
  [t \in DOMAIN us |-> [exists |-> TRUE, is_active |-> TRUE]]

register_user(us, telegram_id) ==
  [us EXCEPT ![telegram_id] = [exists |-> TRUE, is_active |-> TRUE]]

\* add_keyword_sub / add_source_sub: INSERT OR IGNORE on the unique pair.
add_sub(subs, telegram_id, value) == subs \cup {<<telegram_id, value>>}

\* add_*_sub, the result: affected > 0.
add_sub_result(subs, telegram_id, value) == <<telegram_id, value>> \notin subs

\* The DELETE without its second condition: every row of the user goes.
remove_sub_user(subs, telegram_id, value) == {p \in subs : p[1] # telegram_id}

\* remove_keyword_sub / remove_source_sub: DELETE of the pair.
remove_sub(subs, telegram_id, value) == subs \ {<<telegram_id, value>>}

\* remove_*_sub, the result: affected > 0.
remove_sub_result(subs, telegram_id, value) == <<telegram_id, value>> \in subs

\* get_source_subscribers: JOIN users, WHERE source_key = ?1 AND is_active = 1.
get_source_subscribers(ss, us, source_key) ==
  {u \in Users : <<u, source_key>> \in ss /\ us[u].exists /\ us[u].is_active}

\* get_all_keyword_subs without the JOIN on users: every row of the table.
get_all_keyword_subs_all(ks, us) == ks

\* get_all_keyword_subs: JOIN users WHERE is_active = 1.
get_all_keyword_subs(ks, us) ==
  {p \in ks : us[p[1]].exists /\ us[p[1]].is_active}

\* Unicode scalar values of the characters that keywords and source keys
\* are written with (UTF-8 keeps their order): Latin letters, and the two
\* syllables of KwScholar.
CodeOf(c) ==
  IF \E i \in 1..Len(Upper) : Upper[i] = c
  THEN 64 + (CHOOSE i \in 1..Len(Upper) : Upper[i] = c)
  ELSE IF \E i \in 1..Len(Lower) : Lower[i] = c
       THEN 96 + (CHOOSE i \in 1..Len(Lower) : Lower[i] = c)
       ELSE IF c = "jang" THEN 51109 ELSE 54617

\* a < b in the BINARY collation of a TEXT column (memcmp, shorter first).
RECURSIVE TextLess(_, _)
TextLess(a, b) ==
  IF b = << >> THEN FALSE
  ELSE IF a = << >> THEN TRUE
  ELSE IF CodeOf(Head(a)) # CodeOf(Head(b)) THEN CodeOf(Head(a)) < CodeOf(Head(b))
  ELSE TextLess(Tail(a), Tail(b))

\* A source key character by character.
Spell(source_key) == IF source_key = "biz" THEN <<"b","i","z">> ELSE <<"m","a","i","n">>

\* ORDER BY keyword over distinct keywords.
OrderByKeyword(S) ==
  CHOOSE q \in [1..Cardinality(S) -> S] :
    \A i, j \in 1..Cardinality(S) : i < j => TextLess(q[i], q[j])

\* ORDER BY source_key over distinct source keys.
OrderBySourceKey(S) ==
  CHOOSE q \in [1..Cardinality(S) -> S] :
    \A i, j \in 1..Cardinality(S) : i < j => TextLess(Spell(q[i]), Spell(q[j]))

\* get_user_subs: the keywords and the source keys of one user, each list
\* in ascending order.
get_user_subs(ks, ss, telegram_id) ==
  [keywords |-> OrderByKeyword({p[2] : p \in {q \in ks : q[1] = telegram_id}}),
   sources |-> OrderBySourceKey({p[2] : p \in {q \in ss : q[1] = telegram_id}})]

\* A delivery log that is never consulted: every pair counts as not sent.
is_dm_sent_never(log, notice_db_id, telegram_id) == FALSE

\* is_dm_sent: COUNT(*) > 0 over the rows of the pair.
is_dm_sent(log, notice_db_id, telegram_id) ==
  \E r \in log : r.notice_id = notice_db_id /\ r.telegram_id = telegram_id

\* log_dm as a plain INSERT without the unique constraint.
log_dm_plain(log, notice_db_id, telegram_id, match_type, match_value) ==
  log \cup {[notice_id |-> notice_db_id, telegram_id |-> telegram_id,
             match_type |-> match_type, match_value |-> match_value]}

\* log_dm: INSERT OR IGNORE under UNIQUE(notice_id, telegram_id).
log_dm(log, notice_db_id, telegram_id, match_type, match_value) ==
  IF is_dm_sent(log, notice_db_id, telegram_id) THEN log
  ELSE log \cup {[notice_id |-> notice_db_id, telegram_id |-> telegram_id,
                  match_type |-> match_type, match_value |-> match_value]}

\* deactivate_user that removes nobody from the active set.
deactivate_user_noop(us, telegram_id) == us

\* deactivate_user: UPDATE users SET is_active = 0 (no row, no effect).
deactivate_user(us, telegram_id) ==
  IF us[telegram_id].exists
  THEN [us EXCEPT ![telegram_id].is_active = FALSE]
  ELSE us

----------------------------------------------------------------------------
(* Deadline extractor (src/src/deadline.rs)                                *)

Digits == <<"0","1","2","3","4","5","6","7","8","9">>

IsDigit(c) == \E i \in 1..Len(Digits) : Digits[i] = c

DigitVal(c) == (CHOOSE i \in 1..Len(Digits) : Digits[i] = c) - 1

\* One-byte characters of the model alphabet; a Hangul syllable takes 3 bytes.
Ascii ==
  {Upper[i] : i \in 1..Len(Upper)} \cup {Lower[i] : i \in 1..Len(Lower)}
    \cup {Digits[i] : i \in 1..Len(Digits)}
    \cup {" ", ".", "-", "/", "~", "(", ")", ","}

Utf8Len(c) == IF c \in Ascii THEN 1 ELSE 3

\* Byte offset of the character that follows the first n characters of s.
RECURSIVE ByteOff(_, _)
ByteOff(s, n) == IF n = 0 THEN 0 ELSE ByteOff(s, n - 1) + Utf8Len(s[n])

\* The year read from the local clock (deadline.rs line 7).
RefYear == 2026

\* The deadline keywords, in source order: kkaji, magam, inae.
deadline_keywords == << <<"kka","ji">>, <<"ma","gam">>, <<"yi","nae">> >>

\* The length of the byte window in front of a keyword.
RegionBytes == 40

NoMatch == [ok |-> FALSE, a |-> 0, b |-> 0, c |-> 0, end |-> 0]

DigitsAt(r, i, n) == i >= 1 /\ i + n - 1 <= Len(r) /\ \A k \in i..(i + n - 1) : IsDigit(r[k])

RECURSIVE NumAt(_, _, _)
NumAt(r, i, n) ==
  IF n = 0 THEN 0 ELSE NumAt(r, i, n - 1) * 10 + DigitVal(r[i + n - 1])

CharAt(r, i, set) == i >= 1 /\ i <= Len(r) /\ r[i] \in set

\* Greedy \d{1,2} at i when nothing after it can fail: 2, 1 or 0 (no digit).
Greedy12(r, i) ==
  IF DigitsAt(r, i, 2) THEN 2 ELSE IF DigitsAt(r, i, 1) THEN 1 ELSE 0

\* Option::or on regex matches: the first attempt if it matched, else the second.
Backtrack(first, second) == IF first.ok THEN first ELSE second

\* re_full anchored at i with a month of ml digits and a day of dl digits at dpos.
FullWith(r, i, ml, dpos, dl) ==
  IF /\ DigitsAt(r, i, 4) /\ CharAt(r, i + 4, {".", "-", "/"})
     /\ DigitsAt(r, i + 5, ml) /\ CharAt(r, i + 5 + ml, {".", "-", "/"})
     /\ dl > 0
  THEN [ok |-> TRUE, a |-> NumAt(r, i, 4), b |-> NumAt(r, i + 5, ml),
        c |-> NumAt(r, dpos, dl), end |-> dpos + dl]
  ELSE NoMatch

\* re_full anchored at i with a month of ml digits: the match or NoMatch.
FullTry(r, i, ml) == FullWith(r, i, ml, i + 6 + ml, Greedy12(r, i + 6 + ml))

\* re_full = (\d{4})[.\-/](\d{1,2})[.\-/](\d{1,2}) anchored at i; the greedy
\* month takes two digits first and backtracks to one.
FullAt(r, i) == Backtrack(FullTry(r, i, 2), FullTry(r, i, 1))

\* re_md anchored at i with a month of ml digits and a day of dl digits at
\* dpos; the closing [.il] is optional.  a is unused (0).
MdWith(r, i, ml, dpos, dl) ==
  IF DigitsAt(r, i, ml) /\ CharAt(r, i + ml, {".", "wol"}) /\ dl > 0
  THEN [ok |-> TRUE, a |-> 0, b |-> NumAt(r, i, ml), c |-> NumAt(r, dpos, dl),
        end |-> dpos + dl + (IF CharAt(r, dpos + dl, {".", "il"}) THEN 1 ELSE 0)]
  ELSE NoMatch

MdFrom(r, i, ml, dpos) == MdWith(r, i, ml, dpos, Greedy12(r, dpos))

\* re_md anchored at i with a month of ml digits; \s? takes a space if there is one.
MdTry(r, i, ml) ==
  MdFrom(r, i, ml, i + ml + 1 + (IF CharAt(r, i + ml + 1, {" "}) THEN 1 ELSE 0))

\* re_md = (\d{1,2})[.wol]\s?(\d{1,2})[.il]? anchored at i.
MdAt(r, i) == Backtrack(MdTry(r, i, 2), MdTry(r, i, 1))

\* Regex::captures from position i on: the leftmost match.
RECURSIVE FirstFull(_, _)
FirstFull(r, i) ==
  IF i > Len(r) THEN NoMatch ELSE Backtrack(FullAt(r, i), FirstFull(r, i + 1))

RECURSIVE FirstMd(_, _)
FirstMd(r, i) ==
  IF i > Len(r) THEN NoMatch ELSE Backtrack(MdAt(r, i), FirstMd(r, i + 1))

IsLeap(y) == (y % 4 = 0 /\ y % 100 # 0) \/ y % 400 = 0

DaysIn(y, m) ==
  IF m \in {4, 6, 9, 11} THEN 30
  ELSE IF m = 2 THEN (IF IsLeap(y) THEN 29 ELSE 28)
  ELSE 31

\* Option<NaiveDate>::None.
None == [kind |-> "none", y |-> 0, m |-> 0, d |-> 0]

\* A panic of the extractor (the thread unwinds, nothing is returned).
PANIC == [kind |-> "panic", y |-> 0, m |-> 0, d |-> 0]

\* Option::or on dates: the first if it is Some (or a panic), else the second.
FirstSome(first, second) == IF first # None THEN first ELSE second

\* NaiveDate::from_ymd_opt: None for a date that is not on the calendar.
from_ymd_opt(y, m, d) ==
  IF m >= 1 /\ m <= 12 /\ d >= 1 /\ d <= DaysIn(y, m)
  THEN [kind |-> "date", y |-> y, m |-> m, d |-> d]
  ELSE None

parse_ymd(cap) == from_ymd_opt(cap.a, cap.b, cap.c)

parse_md(year, cap) == from_ymd_opt(year, cap.b, cap.c)

\* captures_iter over the whole title, keeping the last match that parses:
\* successive non-overlapping matches, each search starting where the
\* previous match ended.
RECURSIVE LastFull(_, _, _)
\* The loop keeping the first match that parses.
LastFullFrom_first(r, m, last) ==
  IF ~m.ok THEN last ELSE LastFull(r, m.end, FirstSome(last, parse_ymd(m)))

LastFullFrom(r, m, last) ==
  IF ~m.ok THEN last ELSE LastFull(r, m.end, FirstSome(parse_ymd(m), last))

LastFull(r, from, last) == LastFullFrom(r, FirstFull(r, from), last)

RECURSIVE LastMd(_, _, _, _)
LastMdFrom(r, m, year, last) ==
  IF ~m.ok THEN last ELSE LastMd(r, m.end, year, FirstSome(parse_md(year, m), last))

LastMd(r, from, year, last) == LastMdFrom(r, FirstMd(r, from), year, last)

\* The matches captures_iter yields for re_full from position `from` on.
RECURSIVE FullTokens(_, _)
FullTokensFrom(r, m) == IF ~m.ok THEN {} ELSE {m} \cup FullTokens(r, m.end)

FullTokens(r, from) == FullTokensFrom(r, FirstFull(r, from))

\* The matches captures_iter yields for re_md from position `from` on.
RECURSIVE MdTokens(_, _)
MdTokensFrom(r, m) == IF ~m.ok THEN {} ELSE {m} \cup MdTokens(r, m.end)

MdTokens(r, from) == MdTokensFrom(r, FirstMd(r, from))

\* str::find(kw): number of characters in front of the first occurrence,
\* -1 when the keyword does not occur.
find(title, kw) ==
  LET hits == {i \in 0..(Len(title) - Len(kw)) :
                 \A j \in 1..Len(kw) : title[i + j] = kw[j]}
  IN IF hits = {} THEN -1 ELSE CHOOSE i \in hits : \A j \in hits : i <= j

\* Characters in front of byte offset b, or -1 when b falls inside a character.
CharsBefore(title, b) ==
  LET at == {n \in 0..Len(title) : ByteOff(title, n) = b}
  IN IF at = {} THEN -1 ELSE CHOOSE n \in at : TRUE

\* pos.saturating_sub(40)
RegionStart(pos) == IF pos > RegionBytes THEN pos - RegionBytes ELSE 0

\* The date of a region: re_full's first match if it parses, else re_md's.
RegionDate(region, year) ==
  FirstSome(parse_ymd(FirstFull(region, 1)), parse_md(year, FirstMd(region, 1)))

\* &title[start..pos], start being in front of `first` characters: PANIC
\* when start falls inside a character.
KeywordCut(title, year, p, first) ==
  IF first = -1 THEN PANIC ELSE RegionDate(SubSeq(title, first + 1, p), year)

\* The body of the keyword loop for a keyword found after p characters
\* (-1: not found, the loop goes on).
KeywordAt(title, year, p) ==
  IF p = -1 THEN None
  ELSE KeywordCut(title, year, p, CharsBefore(title, RegionStart(ByteOff(title, p))))

\* The keyword loop for keyword k: a date, None (go on with the next
\* keyword) or PANIC.
KeywordDate(title, year, k) == KeywordAt(title, year, find(title, deadline_keywords[k]))

RECURSIVE KeywordLoop(_, _, _)
KeywordLoop(title, year, k) ==
  IF k > Len(deadline_keywords) THEN None
  ELSE FirstSome(KeywordDate(title, year, k), KeywordLoop(title, year, k + 1))

\* extract_deadline: keyword-adjacent date first, else the last full date
\* of the title, else the last month-day date.
extract_deadline(title, year) ==
  FirstSome(KeywordLoop(title, year, 1),
            FirstSome(LastFull(title, 1, None), LastMd(title, 1, year, None)))

\* dl.format("%Y-%m-%d"): the text stored in the deadline column.
FormatDate(dl) == <<dl.y, dl.m, dl.d>>

\* The length of the window in the comment of the keyword loop.
RegionChars == 40

\* The window the comment of the keyword loop describes: the 40 characters
\* in front of a keyword found after p characters.
CharWindow(title, p) == SubSeq(title, IF p > RegionChars THEN p - RegionChars + 1 ELSE 1, p)

\* The date of the character window of a keyword found after p characters.
WindowDateAt(title, year, p) ==
  IF p = -1 THEN None ELSE RegionDate(CharWindow(title, p), year)

\* The date of the character window of the first keyword that has one.
RECURSIVE WindowDate(_, _, _)
WindowDate(title, year, k) ==
  IF k > Len(deadline_keywords) THEN None
  ELSE FirstSome(WindowDateAt(title, year, find(title, deadline_keywords[k])),
                 WindowDate(title, year, k + 1))

----------------------------------------------------------------------------
(* Bounds and configuration                                                *)

\* The clock stops after this many days.
MaxTime == 2

\* Terminal failures of one source are not counted past this number.
MaxErr == 6

\* At most this many commands reach the bot in one run of the model.
MaxCommands == 2

\* At most this many store calls return an error in one run of the model.
MaxFaults == 1

\* bot.max_notices_per_run of the configuration.
MaxNoticesPerRun == 2

\* The '-1 day' of get_recent_for_dm, in days.
DmWindow == 1

\* The LIMIT that do_crawl and DmEngine::process pass to get_recent_for_dm.
RecentLimit == 100

\* The listing pages a source can serve (a successful fetch returns one).
Pages(source_key) ==
  IF source_key = "biz"
  THEN {<< >>, <<RawA>>, <<RawAEdited, RawB>>}
  ELSE {<< >>, <<RawA>>}

\* What a DM send can answer: "" for success, else the text of the error,
\* word by word (send_dm prefixes a Telegram error with "DM failed:").
SendOk == << >>

ErrBlocked == <<"DM failed", ":", "Forbidden", ":", "bot was blocked by the user">>

ErrNetwork == <<"DM failed", ":", "network error">>

SendResults == {SendOk, ErrBlocked, ErrNetwork}

----------------------------------------------------------------------------
(* Queries with ORDER BY and LIMIT (src/src/db.rs)                         *)

\* The first n elements of q: Iterator::take, LIMIT.
Take(q, n) == SubSeq(q, 1, IF n < Len(q) THEN n ELSE Len(q))

\* All the orders in which SQLite may return the elements of a set.
Orders(S) ==
  {q \in [1..Cardinality(S) -> S] : \A i, j \in 1..Cardinality(S) : i # j => q[i] # q[j]}

\* ORDER BY crawled_at DESC over the rows ids; rows with equal timestamps
\* come in any order.
ByCrawledDesc(tbl, ids) ==
  {q \in Orders(ids) :
     \A i, j \in 1..Len(q) : i < j => tbl[q[i]].crawled_at >= tbl[q[j]].crawled_at}

\* get_pending without its LIMIT.
get_pending_nolimit(tbl, limit) == ByCrawledDesc(tbl, PendingIds(tbl))

\* get_pending: notified = 0, most recently crawled first, LIMIT ?1
\* (the set of the sequences of ids the query may return).
get_pending(tbl, limit) ==
  {Take(q, limit) : q \in ByCrawledDesc(tbl, PendingIds(tbl))}

\* The WHERE clause with a window of no length.
RecentIds_today(tbl, t) ==
  {i \in 1..Len(tbl) : tbl[i].notified /\ tbl[i].crawled_at >= t}

\* The WHERE clause without notified = 1.
RecentIds_unsent(tbl, t) ==
  {i \in 1..Len(tbl) : tbl[i].crawled_at >= t - DmWindow}

\* get_recent_for_dm, the WHERE clause.
RecentIds(tbl, t) ==
  {i \in 1..Len(tbl) : tbl[i].notified /\ tbl[i].crawled_at >= t - DmWindow}

\* get_recent_for_dm: notified = 1 and crawled within the last day.
get_recent_for_dm(tbl, t, limit) ==
  {Take(q, limit) : q \in ByCrawledDesc(tbl, RecentIds(tbl, t))}

----------------------------------------------------------------------------
(* DM matching (src/src/dm_engine.rs)                                      *)

\* Step 1 of find_matches: the keyword loop over the snapshot kw from its
\* element k on, with the matches and the seen users so far.
RECURSIVE KeywordMatches(_, _, _, _, _)
KeywordMatches(title_lower, kw, k, matches, seen) ==
  IF k > Len(kw) THEN matches
  ELSE IF contains(title_lower, to_lowercase(kw[k][2])) /\ kw[k][1] \notin seen
       THEN KeywordMatches(title_lower, kw, k + 1,
              Append(matches, [telegram_id |-> kw[k][1], match_type |-> "keyword",
                               match_value |-> kw[k][2]]),
              seen \cup {kw[k][1]})
       ELSE KeywordMatches(title_lower, kw, k + 1, matches, seen)

\* Step 2 of find_matches: the source subscribers not seen yet.
RECURSIVE SourceMatches(_, _, _, _)
SourceMatches(source_key, subscribers, k, matches) ==
  IF k > Len(subscribers) THEN matches
  ELSE IF \E i \in 1..Len(matches) : matches[i].telegram_id = subscribers[k]
       THEN SourceMatches(source_key, subscribers, k + 1, matches)
       ELSE SourceMatches(source_key, subscribers, k + 1,
              Append(matches, [telegram_id |-> subscribers[k], match_type |-> "source",
                               match_value |-> <<source_key>>]))

\* find_matches without the seen_users set: every hit is pushed.
find_matches_nodedup(notice, kw, subscribers) ==
  LET t == to_lowercase(notice.title)
      hit == SelectSeq(kw, LAMBDA p : contains(t, to_lowercase(p[2])))
  IN [i \in 1..Len(hit) |->
        [telegram_id |-> hit[i][1], match_type |-> "keyword", match_value |-> hit[i][2]]]
     \o [i \in 1..Len(subscribers) |->
        [telegram_id |-> subscribers[i], match_type |-> "source",
         match_value |-> <<notice.source_key>>]]

\* find_matches(notice, keyword_subs), with the rows that its call of
\* get_source_subscribers returned.
find_matches(notice, kw, subscribers) ==
  SourceMatches(notice.source_key, subscribers, 1,
                KeywordMatches(to_lowercase(notice.title), kw, 1, << >>, {}))

\* The test of process on a failed send: e.to_string().contains("Forbidden").
IsForbidden(e) == contains(e, <<"Forbidden">>)

----------------------------------------------------------------------------
(* Initial state                                                           *)

\* The crawl loop between two cycles.
CycleIdle == [pc |-> "idle", dry_run |-> FALSE, log_channel |-> FALSE, src |-> 1]

\* DmEngine::process not running.
DmOff == [pc |-> "off", queue |-> << >>, kw |-> << >>, matches |-> << >>, total_sent |-> 0]

\* Nothing observed in a DM pass yet.
NoPass ==
  [notices |-> {}, visited |-> {}, candidates |-> {}, attempted |-> {}, skipped |-> {},
   failed |-> {}, after_fail |-> {}, dormant |-> {}, done |-> FALSE]

\* Nothing observed in the crawl loop of a cycle yet: the sources fetched,
\* those whose fetch failed, the alerts emitted, the deadline step, the
\* store calls that returned an error.
NoCycle == [fetched |-> {}, failed |-> {}, alerts |-> {}, enriched |-> FALSE, faults |-> {}]

\* (obs.run_alerts: per source, the alerts emitted since its last successful
\* crawl.)

\* No fetch observed yet.
NoFetch == [seen |-> FALSE]

\* No direct call of a subscription method observed yet.
NoCall == [op |-> "none", telegram_id |-> 0, keyword |-> << >>, source_key |-> "",
           result |-> FALSE]

\* Nobody holds a subscription.
NoneHeld == [keyword |-> {}, source |-> {}]

\* Nothing observed in a broadcast step yet.
NoBroadcast == [read |-> {}, ok |-> {}, fail |-> {}, done |-> FALSE]

ObsInit ==
  [delivered |-> {}, redelivered |-> {}, pass |-> NoPass, bcast |-> NoBroadcast,
   cyc |-> NoCycle, sent_at |-> {}, fetch |-> NoFetch,
   call |-> NoCall, held |-> NoneHeld, nfault |-> 0, inop |-> "none", transient |-> {}, retried |-> {}, run_alerts |-> [s \in Sources |-> 0],
   fails |-> [s \in Sources |-> 0], ret |-> [s \in Sources |-> 0],
   ins_seen |-> {}, ins_bad |-> {}, rehit |-> {},
   deactivated |-> {}, quiet |-> {}, first_log |-> {}, relogged |-> {}, ncmd |-> 0]

\* A new database file (Database::init), the crawl loop about to start.
Init ==
  /\ notices = EmptyNotices
  /\ crawl_state = EmptyCrawlState
  /\ users = EmptyUsers
  /\ keyword_subs = {}
  /\ source_subs = {}
  /\ dm_log = {}
  /\ now = 0
  /\ cycle = CycleIdle
  /\ dm = DmOff
  /\ obs = ObsInit

----------------------------------------------------------------------------
(* Crawl orchestrator (src/src/main.rs)                                    *)

\* The interval sleep of crawl_loop, or the time between two cron runs.
Tick ==
  /\ cycle.pc = "idle"
  /\ now < MaxTime
  /\ now' = now + 1
  /\ UNCHANGED <<store, cycle, dm, obs>>

\* do_crawl is entered: with a notifier, or without one (run_crawl with no
\* TELOXIDE_TOKEN in the environment: dry run); resolve_channels found a
\* log channel (log) or none.
CycleStartConfigured(dry, log) ==
  /\ cycle.pc = "idle"
  /\ cycle' = [pc |-> "crawl", dry_run |-> dry, log_channel |-> log, src |-> 1]
  /\ obs' = [obs EXCEPT !.bcast = NoBroadcast, !.pass = NoPass, !.cyc = NoCycle]
  /\ UNCHANGED <<store, now, dm>>

\* do_crawl is entered in a deployment that has a log channel.
CycleStartWith(dry) == CycleStartConfigured(dry, TRUE)

CycleStart == \E dry \in BOOLEAN : CycleStartWith(dry)

\* The insert loop of do_crawl over one fetched page, on the notices table.
RECURSIVE InsertPage(_, _, _, _, _)
InsertPage(tbl, source_key, page, k, t) ==
  IF k > Len(page) THEN tbl
  ELSE InsertPage(insert_if_new(tbl, source_key, page[k], t), source_key, page, k + 1, t)

\* The same loop on the crawl_state table.
InsertPageState(cs, source_key, page, t) ==
  IF page = << >> THEN cs ELSE insert_if_new_state(cs, source_key, t)

\* notices.first().map(|n| n.notice_id.clone())
LastId(page) == IF page = << >> THEN NULL ELSE page[1].notice_id

AfterSource == IF cycle.src < Len(SourceOrder)
               THEN [cycle EXCEPT !.src = @ + 1]
               ELSE [cycle EXCEPT !.pc = "broadcast"]

\* The keys (source_key, notice_id) that the insert loop has passed to
\* insert_if_new before row k of the page.
SeenBefore(seen, s, page, k) == seen \cup {<<s, page[j].notice_id>> : j \in 1..(k - 1)}

\* The rows of the page whose insert_if_new did not answer "new" exactly
\* for a key never passed before.
BadResults(tbl, seen, s, page, t) ==
  {<<s, page[k].notice_id>> : k \in
     {k \in 1..Len(page) :
        insert_if_new_result(InsertPage(tbl, s, SubSeq(page, 1, k - 1), 1, t), s, page[k])
          = (<<s, page[k].notice_id>> \in SeenBefore(seen, s, page, k))}}

\* The notified rows that the page hits again with another title.
Rehit(tbl, s, page) ==
  {i \in 1..Len(tbl) :
     /\ tbl[i].notified
     /\ \E k \in 1..Len(page) :
          /\ i \in NoticeRowsOf(tbl, s, page[k].notice_id)
          /\ page[k].title # tbl[i].title}

\* One source of the crawl loop whose fetch_with_retry returned Ok(page).
CrawlOkSeen(s, page, seen) ==
  /\ cycle.pc = "crawl"
  /\ s = SourceOrder[cycle.src]
  /\ notices' = InsertPage(notices, s, page, 1, now)
  /\ crawl_state' =
       update_crawl_state(InsertPageState(crawl_state, s, page, now),
                          s, now, LastId(page))
  /\ obs' = [obs EXCEPT !.fails[s] = 0, !.ret[s] = 0, !.run_alerts[s] = 0,
                        !.cyc.fetched = @ \cup {s},
                        !.fetch = seen,
                        !.ins_seen = SeenBefore(@, s, page, Len(page) + 1),
                        !.ins_bad = @ \cup BadResults(notices, obs.ins_seen, s, page, now),
                        !.rehit = @ \cup Rehit(notices, s, page)]
  /\ cycle' = AfterSource
  /\ UNCHANGED <<users, keyword_subs, source_subs, dm_log, now, dm>>

\* The Ok arm for a page, the fetch behind it not observed.
CrawlOkWith(s, page) == CrawlOkSeen(s, page, obs.fetch)

CrawlOk == \E s \in Sources : \E page \in Pages(s) : CrawlOkWith(s, page)

\* The alert threshold of do_crawl.
AlertThreshold == 5

\* The alert test of do_crawl with == in place of >=.
ShouldAlertOnce(err_count) == err_count = AlertThreshold

\* The alert test of do_crawl with > in place of >=.
ShouldAlertAbove(err_count) == err_count > AlertThreshold

\* if err_count >= 5
ShouldAlert(err_count) == err_count >= AlertThreshold

\* Notifier::send_error_alert: the alerts emitted after the call; without a
\* log channel the alert is dropped (and Ok returned).
send_error_alert(log_channel, alerts, message) ==
  IF log_channel THEN alerts \cup {message} ELSE alerts

\* The alert branch of the Err arm for source s and the counter err_count:
\* the alerts emitted after it; without a notifier nothing is emitted.
AlertsAfter(alerts, s, err_count) ==
  IF ShouldAlert(err_count) /\ ~cycle.dry_run
  THEN send_error_alert(cycle.log_channel, alerts, <<s, err_count>>)
  ELSE alerts

\* A cycle that ends when a source fails, leaving out the rest of do_crawl.
AfterSourceAbort == CycleIdle

\* The locals of do_crawl after the Err arm: the source loop goes on.
AfterSourceError == AfterSource

\* One source of the crawl loop whose fetch_with_retry returned Err.
CrawlErrSeen(seen) ==
  /\ cycle.pc = "crawl"
  /\ LET s == SourceOrder[cycle.src]
     IN /\ crawl_state[s].error_count < MaxErr
        /\ crawl_state' = increment_error(crawl_state, s, now)
        /\ obs' = [obs EXCEPT !.fails[s] = @ + 1,
                              !.ret[s] = increment_error_result(crawl_state, s, now),
                              !.cyc.fetched = @ \cup {s},
                              !.cyc.failed = @ \cup {s},
                              !.fetch = seen,
                              !.cyc.alerts =
                                 AlertsAfter(@, s, increment_error_result(crawl_state, s, now)),
                              !.run_alerts[s] =
                                 IF AlertsAfter(obs.cyc.alerts, s,
                                                increment_error_result(crawl_state, s, now))
                                      # obs.cyc.alerts
                                 THEN @ + 1 ELSE @]
  /\ cycle' = AfterSourceError
  /\ UNCHANGED <<notices, users, keyword_subs, source_subs, dm_log, now, dm>>

\* The Err arm, the fetch behind it not observed.
CrawlErr == CrawlErrSeen(obs.fetch)

\* send_batch that gives up at the first failed send.
send_batch_break(pending, max, ok, k) ==
  LET n == IF max < Len(pending) THEN max ELSE Len(pending)
      bad == {j \in k..n : ~ok[j]}
      stop == IF bad = {} THEN n + 1 ELSE CHOOSE j \in bad : \A i \in bad : j <= i
  IN SubSeq(pending, k, stop - 1)

\* send_batch that reports every notice it tried as sent.
send_batch_all(pending, max, ok, k) ==
  SubSeq(pending, k, IF max < Len(pending) THEN max ELSE Len(pending))

\* Notifier::send_batch: the ids of the notices (of the first max) whose
\* send_notice answered Ok, which is what do_crawl reads from the result
\* (for id in &sent_ids); a failed send does not end the loop.  ok[i] is the
\* answer for notices[i].
RECURSIVE send_batch(_, _, _, _)
send_batch(pending, max, ok, k) ==
  IF k > Len(pending) \/ k > max THEN << >>
  ELSE (IF ok[k] THEN <<pending[k]>> ELSE << >>) \o send_batch(pending, max, ok, k + 1)

\* for id in &sent_ids { database.mark_notified(*id)?; }
RECURSIVE MarkAll(_, _, _)
MarkAll(tbl, ids, k) ==
  IF k > Len(ids) THEN tbl ELSE MarkAll(mark_notified(tbl, ids[k]), ids, k + 1)

Range(q) == {q[i] : i \in 1..Len(q)}

\* The broadcast step of do_crawl with a notifier, for the pending notices
\* read and the answers to their sends (ok[k]: the send of pending[k] is
\* answered Ok); `timed` says whether the time of each successful send is
\* kept in obs.sent_at.
BroadcastAnswered(pending, ok, timed) ==
  /\ notices' = MarkAll(notices, send_batch(pending, MaxNoticesPerRun, ok, 1), 1)
  /\ obs' = [obs EXCEPT !.bcast =
                    [read |-> Range(pending),
                     ok |-> {pending[k] : k \in {j \in DOMAIN ok :
                                                   j <= MaxNoticesPerRun /\ ok[j]}},
                     fail |-> {pending[k] : k \in {j \in DOMAIN ok :
                                                     j <= MaxNoticesPerRun /\ ~ok[j]}},
                     done |-> TRUE],
                    !.sent_at =
                      IF timed
                      THEN @ \cup {<<pending[k], now>> :
                                     k \in {j \in DOMAIN ok :
                                              j <= MaxNoticesPerRun /\ ok[j]}}
                      ELSE @]
  /\ cycle' = [cycle EXCEPT !.pc = "deadline"]
  /\ UNCHANGED <<crawl_state, users, keyword_subs, source_subs, dm_log, now, dm>>

\* The broadcast step with sends that are answered from `answers` (TRUE: Ok).
BroadcastObserved(answers, timed) ==
  /\ cycle.pc = "broadcast"
  /\ ~cycle.dry_run
  /\ \E pending \in get_pending(notices, MaxNoticesPerRun) :
       \E ok \in [1..Len(pending) -> answers] : BroadcastAnswered(pending, ok, timed)

\* The broadcast step; the send times are not kept.
BroadcastWith(answers) == BroadcastObserved(answers, FALSE)

Broadcast == BroadcastWith(BOOLEAN)

\* The broadcast step, the send times kept.
BroadcastTimed == BroadcastObserved(BOOLEAN, TRUE)

\* The broadcast step of a dry run: every pending notice read is printed
\* and marked notified, nothing is sent.
BroadcastDryRun ==
  /\ cycle.pc = "broadcast"
  /\ cycle.dry_run
  /\ \E pending \in get_pending(notices, MaxNoticesPerRun) :
       /\ notices' = MarkAll(notices, pending, 1)
       /\ obs' = [obs EXCEPT !.bcast =
                    [read |-> Range(pending), ok |-> {}, fail |-> {}, done |-> TRUE]]
  /\ cycle' = [cycle EXCEPT !.pc = "deadline"]
  /\ UNCHANGED <<crawl_state, users, keyword_subs, source_subs, dm_log, now, dm>>

\* The deadline loop of do_crawl over `recent` from its element k on, the
\* local clock being in `year`: the notices table after it, and whether
\* extract_deadline panicked on the way.
RECURSIVE Enriched(_, _, _, _)
EnrichedWith(tbl, recent, k, year, dl) ==
  IF dl = PANIC THEN [panic |-> TRUE, tbl |-> tbl]
  ELSE Enriched(IF dl = None THEN tbl ELSE set_deadline(tbl, recent[k], FormatDate(dl)),
                recent, k + 1, year)

Enriched(tbl, recent, k, year) ==
  IF k > Len(recent) THEN [panic |-> FALSE, tbl |-> tbl]
  ELSE EnrichedWith(tbl, recent, k, year, extract_deadline(tbl[recent[k]].title, year))

\* The deadline enrichment step of do_crawl, run while the local clock is
\* in `year`.
EnrichIn(year) ==
  /\ cycle.pc = "deadline"
  /\ \E recent \in get_recent_for_dm(notices, now, RecentLimit) :
       LET r == Enriched(notices, recent, 1, year)
       IN /\ notices' = r.tbl
          /\ cycle' = [cycle EXCEPT !.pc = IF r.panic THEN "panicked" ELSE "dm"]
  /\ obs' = [obs EXCEPT !.cyc.enriched = TRUE]
  /\ UNCHANGED <<crawl_state, users, keyword_subs, source_subs, dm_log, now, dm>>

\* The deadline step on a day of the reference year.
Enrich == EnrichIn(RefYear)

\* The DM step of a dry run: no engine, dm_sent = 0; summary; do_crawl returns.
DmSkipDryRun ==
  /\ cycle.pc = "dm"
  /\ cycle.dry_run
  /\ cycle' = CycleIdle
  /\ UNCHANGED <<store, now, dm, obs>>

\* An environment that never changes: every fetch succeeds with the same page.
SteadyPage(source_key) == IF source_key = "biz" THEN <<RawA>> ELSE <<RawAEdited>>

----------------------------------------------------------------------------
(* DM engine: DmEngine::process (src/src/dm_engine.rs)                     *)

\* Users that cannot be reached by a pass: no row, or is_active = 0.
Inactive(us) == {u \in Users : ~(us[u].exists /\ us[u].is_active)}

\* process returns: total_sent goes into the summary and do_crawl returns.
DmReturn == /\ cycle' = CycleIdle
            /\ dm' = DmOff

\* process starts: get_recent_for_dm(100); nothing recent, return Ok(0);
\* else get_all_keyword_subs, read once for the whole pass.
DmBegin ==
  /\ cycle.pc = "dm"
  /\ ~cycle.dry_run
  /\ dm.pc = "off"
  /\ \E recent \in get_recent_for_dm(notices, now, RecentLimit) :
       IF recent = << >>
       THEN /\ DmReturn
            /\ obs' = [obs EXCEPT !.pass = [NoPass EXCEPT !.done = TRUE]]
       ELSE \E kw \in Orders(get_all_keyword_subs(keyword_subs, users)) :
              /\ dm' = [pc |-> "find", queue |-> recent, kw |-> kw,
                        matches |-> << >>, total_sent |-> 0]
              /\ obs' = [obs EXCEPT !.pass =
                           [NoPass EXCEPT !.notices = Range(recent),
                                          !.dormant = Inactive(users)]]
              /\ UNCHANGED cycle
  /\ UNCHANGED <<store, now>>

\* The head of the notice loop: find_matches for the next notice, with
\* get_source_subscribers read now.
DmFind ==
  /\ dm.pc = "find"
  /\ dm.queue # << >>
  /\ LET id == Head(dm.queue)
         n == notices[id]
     IN \E subscribers \in Orders(get_source_subscribers(source_subs, users, n.source_key)) :
          LET matches == find_matches(n, dm.kw, subscribers)
          IN /\ dm' = [dm EXCEPT !.pc = IF matches = << >> THEN "find" ELSE "send",
                                 !.matches = matches,
                                 !.queue = IF matches = << >> THEN Tail(dm.queue) ELSE @]
             /\ obs' = [obs EXCEPT
                          !.pass.visited = @ \cup {id},
                          !.pass.candidates =
                             @ \cup {<<id, matches[i].telegram_id>> : i \in 1..Len(matches)}]
  /\ UNCHANGED <<store, now, cycle>>

\* The notice loop is over.
DmEnd ==
  /\ dm.pc = "find"
  /\ dm.queue = << >>
  /\ DmReturn
  /\ obs' = [obs EXCEPT !.pass.done = TRUE]
  /\ UNCHANGED <<store, now>>

\* The locals of process after the candidate at the head of dm.matches.
DmNext ==
  IF Len(dm.matches) > 1
  THEN [dm EXCEPT !.matches = Tail(@)]
  ELSE [dm EXCEPT !.matches = << >>, !.queue = Tail(@), !.pc = "find"]

\* process with an early return on the first failed send.
DmNextAbortOnError == [dm EXCEPT !.matches = << >>, !.queue = << >>, !.pc = "find"]

\* The locals of process after a failed send: the loop goes on.
DmNextAfterError == DmNext

\* One candidate of the match loop that is_dm_sent reports as sent: skipped.
DmSkipSent ==
  /\ dm.pc = "send"
  /\ LET id == Head(dm.queue)
         m == Head(dm.matches)
     IN /\ is_dm_sent(dm_log, id, m.telegram_id)
        /\ obs' = [obs EXCEPT !.pass.skipped = @ \cup {<<id, m.telegram_id>>}]
  /\ dm' = DmNext
  /\ UNCHANGED <<store, now, cycle>>

\* The first row ever logged for each (notice, user) pair.
FirstLog(first, notice_db_id, telegram_id, match_type, match_value) ==
  IF \E r \in first : r.notice_id = notice_db_id /\ r.telegram_id = telegram_id
  THEN first
  ELSE first \cup {[notice_id |-> notice_db_id, telegram_id |-> telegram_id,
                    match_type |-> match_type, match_value |-> match_value]}

\* What the pass records about one send_dm call.
Observe(id, m, result) ==
  [obs EXCEPT
     !.first_log = IF result = SendOk
                   THEN FirstLog(@, id, m.telegram_id, m.match_type, m.match_value) ELSE @,
     !.deactivated = IF result # SendOk /\ IsForbidden(result)
                     THEN @ \cup {m.telegram_id} ELSE @,
     !.quiet = IF result # SendOk /\ IsForbidden(result)
               THEN @ \cup {m.telegram_id} ELSE @,
     !.pass.attempted = @ \cup {<<id, m.telegram_id>>},
     !.pass.failed = IF result = SendOk THEN @ ELSE @ \cup {<<id, m.telegram_id>>},
     !.pass.after_fail = IF obs.pass.failed # {} THEN @ \cup {<<id, m.telegram_id>>} ELSE @,
     !.delivered = IF result = SendOk THEN @ \cup {<<id, m.telegram_id>>} ELSE @,
     !.redelivered = IF result = SendOk /\ <<id, m.telegram_id>> \in obs.delivered
                     THEN @ \cup {<<id, m.telegram_id>>} ELSE @]

\* The same, with the pairs whose send failed for another reason than
\* "Forbidden" and has not succeeded since kept in obs.transient, and those
\* of them that were sent to again, with the day, in obs.retried.
ObserveTracked(id, m, result) ==
  [Observe(id, m, result) EXCEPT
     !.retried = IF <<id, m.telegram_id>> \in obs.transient
                 THEN @ \cup {<<id, m.telegram_id, now>>} ELSE @,
     !.transient = IF result = SendOk THEN @ \ {<<id, m.telegram_id>>}
                   ELSE IF IsForbidden(result) THEN @
                   ELSE @ \cup {<<id, m.telegram_id>>}]

\* process that deactivates the recipient after any failed send.
DeactivateOnAnyError(us, telegram_id, e) == deactivate_user(us, telegram_id)

\* The Err arm of process: deactivate_user when the error text has "Forbidden".
DeactivateOnError(us, telegram_id, e) ==
  IF IsForbidden(e) THEN deactivate_user(us, telegram_id) ELSE us

\* One candidate of the match loop that is not in dm_log: send_dm, answered
\* by `result`; Ok is logged and counted, an error may deactivate the user.
\* `tracked` says whether obs.transient is kept.
DmSendObserved(result, tracked) ==
  /\ dm.pc = "send"
  /\ LET id == Head(dm.queue)
         m == Head(dm.matches)
     IN /\ ~is_dm_sent(dm_log, id, m.telegram_id)
        /\ IF result = SendOk
           THEN /\ dm_log' = log_dm(dm_log, id, m.telegram_id, m.match_type, m.match_value)
                /\ users' = users
                /\ dm' = [DmNext EXCEPT !.total_sent = @ + 1]
           ELSE /\ users' = DeactivateOnError(users, m.telegram_id, result)
                /\ dm_log' = dm_log
                /\ dm' = DmNextAfterError
        /\ obs' = IF tracked THEN ObserveTracked(id, m, result) ELSE Observe(id, m, result)
  /\ UNCHANGED <<notices, crawl_state, keyword_subs, source_subs, now, cycle>>

DmSendWith(result) == DmSendObserved(result, FALSE)

DmSend == \E result \in SendResults : DmSendWith(result)

----------------------------------------------------------------------------
(* Command front end: handle_command (src/src/bot_commands.rs)             *)

\* The commands whose handler only answers (the sender is still registered).
AnswerOnly == {"start", "help", "mysubs", "sources", "status"}

\* The sender's dormancy ends with any command: register_user sets is_active.
Woken(u) == [obs EXCEPT !.pass.dormant = @ \ {u}, !.quiet = @ \ {u}, !.ncmd = @ + 1]

\* /start, /help, /mysubs, /sources, /status, and any command whose argument
\* is rejected (empty keyword, unknown source): register_user only.
CmdAnswer(u) ==
  /\ obs.ncmd < MaxCommands
  /\ \E c \in AnswerOnly : users' = register_user(users, u)
  /\ obs' = Woken(u)
  /\ UNCHANGED <<notices, crawl_state, keyword_subs, source_subs, dm_log, now, cycle, dm>>

\* /sub <keyword>
CmdSub(u, kw) ==
  /\ obs.ncmd < MaxCommands
  /\ users' = register_user(users, u)
  /\ keyword_subs' = add_sub(keyword_subs, u, kw)
  /\ obs' = Woken(u)
  /\ UNCHANGED <<notices, crawl_state, source_subs, dm_log, now, cycle, dm>>

\* /unsub <keyword>
CmdUnsub(u, kw) ==
  /\ obs.ncmd < MaxCommands
  /\ users' = register_user(users, u)
  /\ keyword_subs' = remove_sub(keyword_subs, u, kw)
  /\ obs' = Woken(u)
  /\ UNCHANGED <<notices, crawl_state, source_subs, dm_log, now, cycle, dm>>

\* /dept <source key>, the key being one of the configured sources.
CmdDept(u, key) ==
  /\ obs.ncmd < MaxCommands
  /\ users' = register_user(users, u)
  /\ source_subs' = add_sub(source_subs, u, key)
  /\ obs' = Woken(u)
  /\ UNCHANGED <<notices, crawl_state, keyword_subs, dm_log, now, cycle, dm>>

\* /undept <source key>
CmdUndept(u, key) ==
  /\ obs.ncmd < MaxCommands
  /\ users' = register_user(users, u)
  /\ source_subs' = remove_sub(source_subs, u, key)
  /\ obs' = Woken(u)
  /\ UNCHANGED <<notices, crawl_state, keyword_subs, dm_log, now, cycle, dm>>

\* handle_command for a message of user u whose argument, if the command
\* takes one, is a keyword of kws or a source key of keys.
HandleCommandWith(u, kws, keys) ==
  \/ CmdAnswer(u)
  \/ \E kw \in kws : CmdSub(u, kw) \/ CmdUnsub(u, kw)
  \/ \E key \in keys : CmdDept(u, key) \/ CmdUndept(u, key)

HandleCommand(u) == HandleCommandWith(u, Keywords, Sources)

----------------------------------------------------------------------------
(* The pipeline: crawl cycles, with commands arriving at any time          *)

Next ==
  \/ Tick
  \/ CycleStart
  \/ CrawlOk
  \/ CrawlErr
  \/ Broadcast
  \/ BroadcastDryRun
  \/ Enrich
  \/ DmSkipDryRun
  \/ DmBegin
  \/ DmFind
  \/ DmEnd
  \/ DmSkipSent
  \/ DmSend
  \/ \E u \in Users : HandleCommand(u)

Spec == Init /\ [][Next]_vars

----------------------------------------------------------------------------
(* The pipeline in an environment whose sites answer anything but errors:  *)
(* any page, with a notifier or as a dry run, any broadcast answer; one    *)
(* user who sends commands without an argument.                            *)

NextCrawl ==
  \/ Tick
  \/ CycleStart
  \/ CrawlOk
  \/ Broadcast
  \/ BroadcastDryRun
  \/ Enrich
  \/ DmSkipDryRun
  \/ DmBegin
  \/ DmFind
  \/ DmEnd
  \/ CmdAnswer(100)

SpecCrawl == Init /\ [][NextCrawl]_vars

----------------------------------------------------------------------------
(* The pipeline in an environment whose sites serve one steady page or     *)
(* fail, under any configuration; a notifier sends every broadcast.        *)

CrawlSteady == \E s \in Sources : CrawlOkWith(s, SteadyPage(s))

BroadcastAllOk == BroadcastWith({TRUE})

StartWithNotifier == CycleStartWith(FALSE)

\* do_crawl is entered, under any configuration.
StartAnyConfig == \E dry, log \in BOOLEAN : CycleStartConfigured(dry, log)

NextErr ==
  \/ Tick
  \/ StartAnyConfig
  \/ CrawlSteady
  \/ CrawlErr
  \/ BroadcastAllOk
  \/ BroadcastDryRun
  \/ Enrich
  \/ DmSkipDryRun
  \/ DmBegin
  \/ DmFind
  \/ DmEnd

SpecErr == Init /\ [][NextErr]_vars

----------------------------------------------------------------------------
(* The DM engine at work: steady pages, every broadcast sent, two users    *)
(* who subscribe and unsubscribe, any answer to a DM send.                 *)

NextDm ==
  \/ Tick
  \/ StartWithNotifier
  \/ CrawlSteady
  \/ BroadcastAllOk
  \/ Enrich
  \/ DmBegin
  \/ DmFind
  \/ DmEnd
  \/ DmSkipSent
  \/ DmSend
  \/ \E u \in Users : HandleCommandWith(u, {KwAi}, {"biz"})

SpecDm == Init /\ [][NextDm]_vars

----------------------------------------------------------------------------
(* The pipeline over steady pages with a notifier whose sends may fail, or  *)
(* without one, the time of every broadcast kept.                           *)

\* A source whose page lists no notice.
CrawlQuiet == \E s \in Sources : CrawlOkWith(s, << >>)

NextWindow ==
  \/ Tick
  \/ CycleStart
  \/ CrawlSteady
  \/ CrawlQuiet
  \/ BroadcastTimed
  \/ BroadcastDryRun
  \/ Enrich
  \/ DmSkipDryRun
  \/ DmBegin
  \/ DmFind
  \/ DmEnd

SpecWindow == Init /\ [][NextWindow]_vars

----------------------------------------------------------------------------
(* Category::classify on its own: the titles of test_classify and two      *)
(* more, each inserted by a crawl as the title of a listing row.           *)

TitleT1 == <<"2","0","2","6","hak","nyeon","do"," ","1","hak","gi"," ",
             "su","gang","sin","cheong"," ","il","jeong"," ","an","nae">>
TitleT2 == <<"2","0","2","6","hak","nyeon","do"," ","guk","ga","jang","hak","geum"," ",
             "sin","cheong"," ","an","nae">>
TitleT3 == <<"2","0","2","6","nyeon","do"," ","je","1","cha"," ","jik","won","(",
             "gong","mu","jik",")"," ","chae","yong"," ","gong","go">>
TitleT4 == <<"hae","oe"," ","eo","hak","yeon","su"," ","cham","ga","ja"," ","mo","jip">>
TitleT5 == <<"A","I"," ","teuk","gang"," ","mit"," ","se","mi","na"," ","an","nae">>
TitleT6 == <<"kaem","peo","seu"," ","do","ro"," ","bo","su","gong","sa"," ","an","nae">>
TitleT7 == <<"gyo","nae","jang","hak","geum"," ","sin","cheong"," ","mo","jip">>

\* A recruit term and a contest term.
TitleT8 == <<"jo","gyo"," ","mo","jip">>

\* An academic term (hak gi), a scholarship term and a contest term.
TitleT9 == <<"1","hak","gi"," ","guk","ga","jang","hak","geum"," ","mo","jip">>

ClassifyTitles ==
  {TitleT1, TitleT2, TitleT3, TitleT4, TitleT5, TitleT6, TitleT7, TitleT8, TitleT9}

\* keywords.iter().any(|k| t.contains(k)) for one keyword list.
HasAny(title, keywords) ==
  \E k \in 1..Len(keywords) : contains(to_lowercase(title), keywords[k])

\* A crawl of a page whose one row has the given title.
CrawlTitled ==
  \E s \in Sources, title \in ClassifyTitles :
    CrawlOkWith(s, <<[RawA EXCEPT !.title = title]>>)

NextClassify ==
  \/ CycleStart
  \/ CrawlTitled

SpecClassify == Init /\ [][NextClassify]_vars

----------------------------------------------------------------------------
(* extract_deadline on its own: the titles of the tests of deadline.rs and *)
(* seven more, each crawled as the title of a listing row, broadcast and   *)
(* passed to the deadline step.                                            *)

\* test_full_date_with_deadline_keyword
TitleD1 == <<"jang","hak","geum"," ","sin","cheong"," ","(","~",
             "2","0","2","6",".","0","2",".","1","4","kka","ji",")">>

\* test_short_date_with_keyword
TitleD2 == <<"(","jae",")","ha","rim","jang","hak","jae","dan"," ","chu","cheon"," ",
             "an","nae","(","2",".","1","0",".","(","hwa",")","kka","ji"," ",
             "sin","cheong","seo"," ","je","chul",")">>

\* test_range_picks_last
TitleD3 == <<"2",".","6","(","geum",")","~","2",".","8","(","il",")"," ",
             "deung","rok","geum"," ","nap","bu">>

\* test_no_date_returns_none
TitleD4 == <<"jang","hak","geum"," ","sin","cheong"," ","an","nae">>

\* test_full_iso_date
TitleD5 == <<"2","0","2","6","-","0","3","-","0","1"," ","ma","gam"," ","gong","ji">>

\* A date 13 syllables (39 bytes) in front of the keyword, another date
\* behind the keyword.
TitleD6 == <<"3",".","5","guk","ga","jang","hak","geum","sin","cheong","seo","je","chul",
             "gi","gan","eun","kka","ji"," ","4",".","1">>

\* 14 syllables (42 bytes) and a date in front of the keyword.
TitleD7 == <<"guk","ga","jang","hak","geum","sin","cheong","seo","je","chul",
             "gi","gan","an","nae","2",".","1","kka","ji">>

\* Two full dates, no keyword.
TitleD8 == <<"2","0","2","6",".","3",".","1","~","2","0","2","6",".","3",".","1","5",
             " ","jeop","su">>

\* A full date that is not on the calendar and a month-day date, no keyword.
TitleD9 == <<"2","0","2","6",".","2",".","3","0"," ","3","wol"," ","5","il">>

\* A keyword whose window holds a date that is not on the calendar, and a
\* full date behind it.
TitleD10 == <<"2",".","3","0","kka","ji"," ","2","0","2","6",".","4",".","1">>

\* A month-day date and then a full date in front of the keyword.
TitleD11 == <<"3",".","1","~","2","0","2","6",".","3",".","1","5","kka","ji">>

\* Two month-day dates and a date that is not on the calendar, no keyword.
TitleD12 == <<"1","wol","5","il"," ","2",".","7"," ","1","3",".","4","0">>

DeadlineTitles ==
  {TitleD1, TitleD2, TitleD3, TitleD4, TitleD5, TitleD6, TitleD7, TitleD8, TitleD9,
   TitleD10, TitleD11, TitleD12}

\* A crawl of a page whose one row has the given title.
CrawlDated ==
  \E s \in Sources, title \in DeadlineTitles :
    CrawlOkWith(s, <<[RawA EXCEPT !.title = title]>>)

NextDeadline ==
  \/ StartWithNotifier
  \/ CrawlDated
  \/ BroadcastAllOk
  \/ Enrich

SpecDeadline == Init /\ [][NextDeadline]_vars

----------------------------------------------------------------------------
(* Parsers (src/src/parser): the four dialects on abstract listing pages.  *)
(* A row of a page is what the parsers read of it: the number of its cells *)
(* (td, or div for php_master), whether it has a td.title cell, whether the *)
(* link the dialect looks for is there, the numeric id its href resolves   *)
(* to (NULL: none), the text of the link and its title attribute.          *)

Dialects == {"egov", "php_master", "ciboard", "xe_board"}

\* str::trim on the left and on the right.
RECURSIVE TrimLeft(_)
TrimLeft(t) == IF t # << >> /\ Head(t) = " " THEN TrimLeft(Tail(t)) ELSE t

RECURSIVE TrimRight(_)
TrimRight(t) ==
  IF t # << >> /\ t[Len(t)] = " " THEN TrimRight(SubSeq(t, 1, Len(t) - 1)) ELSE t

Trim(t) == TrimRight(TrimLeft(t))

\* No title attribute on the link.
NoAttr == <<"NoAttr">>

\* cells.len() < 4 (divs.len() < 4 for php_master, cells.len() < 3 for xe_board)
MinCells(d) == IF d = "xe_board" THEN 3 ELSE 4

\* The link of the row: the first a[href] of the row, for xe_board the
\* first a[href] of its td.title cell.
HasLink(d, row) == row.link /\ (d = "xe_board" => row.td_title)

\* The title of the row's link: its trimmed text, for ciboard its trimmed
\* title attribute when there is one that is not empty.
TitleOf(d, row) ==
  IF d = "ciboard" /\ row.attr # NoAttr /\ Trim(row.attr) # << >>
  THEN Trim(row.attr)
  ELSE Trim(row.text)

\* build_view_url
ViewUrl(id) == "u" \o id

\* The body of the row loop: the notices one row adds (one or none); the
\* author and date cells of the rows of the model are empty.
ParseRow(d, row) ==
  IF \/ row.cells < MinCells(d)
     \/ ~HasLink(d, row)
     \/ row.id = NULL
     \/ TitleOf(d, row) = << >>
  THEN << >>
  ELSE << [notice_id |-> row.id, title |-> TitleOf(d, row), url |-> ViewUrl(row.id),
           author |-> NULL, date |-> NULL] >>

\* A row loop that gives up the page at the first row it cannot read.
RECURSIVE ParseRows_abort(_, _, _)
ParseRows_abort(d, rows, k) ==
  IF k > Len(rows) \/ ParseRow(d, rows[k]) = << >> THEN << >>
  ELSE ParseRow(d, rows[k]) \o ParseRows_abort(d, rows, k + 1)

\* The row loop from row k on.
RECURSIVE ParseRows(_, _, _)
ParseRows(d, rows, k) ==
  IF k > Len(rows) THEN << >>
  ELSE ParseRow(d, rows[k]) \o ParseRows(d, rows, k + 1)

\* The markup of a page as the row selectors see it: its listings in
\* document order, each with the class that the selectors test (of the
\* table, of the element around it, or of its div rows) and its rows.
TableClasses == {"board-list", "bbs-list", "boardList", "gitav_table_skin1", "board",
                 "bd_lst", "bd_tb_lst", "bd_tb", "board_rows", "plain"}

\* Every table: what "table tbody tr" matches.
AnyTable == TableClasses \ {"board_rows"}

\* table_selectors of the dialect, each candidate as the classes of the
\* listings whose rows it matches; php_master has the one selector
\* div.board_rows.
table_selectors(d) ==
  CASE d = "egov" -> <<{"board-list"}, {"bbs-list"}, {"boardList"}, AnyTable>>
    [] d = "ciboard" -> <<{"gitav_table_skin1"}, {"board"}, AnyTable>>
    [] d = "xe_board" -> <<{"bd_lst"}, {"bd_tb_lst"}, {"bd_tb"}>>
    [] d = "php_master" -> <<{"board_rows"}>>

\* document.select(&row_sel).collect(): the rows of the listings from the
\* k-th on that the candidate matches, in document order.
RECURSIVE Select(_, _, _)
Select(classes, tables, k) ==
  IF k > Len(tables) THEN << >>
  ELSE (IF tables[k].class \in classes THEN tables[k].rows ELSE << >>)
         \o Select(classes, tables, k + 1)

\* A selector loop that keeps what every candidate yields.
RECURSIVE TrySelectors_merge(_, _, _, _)
TrySelectors_merge(d, candidates, tables, k) ==
  IF k > Len(candidates) THEN << >>
  ELSE ParseRows(d, Select(candidates[k], tables, 1), 1)
         \o TrySelectors_merge(d, candidates, tables, k + 1)

\* for sel_str in &table_selectors, from the k-th candidate on: a candidate
\* that matches no row is passed over, and so is one whose rows all are
\* skipped; the loop ends with the first candidate that leaves notices.
RECURSIVE TrySelectors(_, _, _, _)
TrySelectors(d, candidates, tables, k) ==
  IF k > Len(candidates) THEN << >>
  ELSE LET found == ParseRows(d, Select(candidates[k], tables, 1), 1)
       IN IF found # << >> THEN found
          ELSE TrySelectors(d, candidates, tables, k + 1)

\* parse_html (parse_ajax_html): the notices of the rows the selectors of
\* the dialect find, none when they match nothing of the body (an empty
\* body among them).
parse_html(d, body) ==
  IF body.text = "html" THEN TrySelectors(d, table_selectors(d), body.tables, 1)
  ELSE << >>

\* Result::Err of a fetch.
FetchErr == [ok |-> FALSE, notices |-> << >>]

\* StatusCode::is_success
is_success(status) == status >= 200 /\ status < 300

\* fetch_notices of dialect d: `first` is the answer to the form page
\* request of php_master (made by that dialect only), resp the answer to
\* the listing request.  sent = FALSE: the request or the reading of its
\* body failed.
fetch_notices(d, first, resp) ==
  IF d = "php_master" /\ ~first.sent THEN FetchErr
  ELSE IF ~resp.sent THEN FetchErr
  ELSE IF ~is_success(resp.status) THEN FetchErr
  ELSE IF d = "php_master" /\ resp.body.text = "empty" THEN FetchErr
  ELSE [ok |-> TRUE, notices |-> parse_html(d, resp.body)]

\* One source of the crawl loop: the site answers every attempt of
\* fetch_with_retry alike, so the fetch ends as its first attempt does.
CrawlFetchedWith(s, r, seen) ==
  IF r.ok THEN CrawlOkSeen(s, r.notices, seen) ELSE CrawlErrSeen(seen)

CrawlFetched(s, d, first, resp) ==
  /\ cycle.pc = "crawl"
  /\ s = SourceOrder[cycle.src]
  /\ CrawlFetchedWith(s, fetch_notices(d, first, resp),
                      [seen |-> TRUE, dialect |-> d, first |-> first, resp |-> resp,
                       result |-> fetch_notices(d, first, resp)])

\* Rows of a listing page: two rows every dialect reads, one without a
\* link, one whose href has no id, one with a blank title, one with too
\* few cells, and one whose title is in the title attribute only.
RowGood1 == [cells |-> 5, td_title |-> TRUE, link |-> TRUE, id |-> "1",
             text |-> <<" ", "A", "I", " ", "mo", "jip", " ">>, attr |-> NoAttr]
RowGood2 == [cells |-> 6, td_title |-> TRUE, link |-> TRUE, id |-> "2",
             text |-> TitlePlain, attr |-> NoAttr]
RowNoLink == [cells |-> 5, td_title |-> TRUE, link |-> FALSE, id |-> NULL,
              text |-> << >>, attr |-> NoAttr]
RowNoId == [cells |-> 5, td_title |-> TRUE, link |-> TRUE, id |-> NULL,
            text |-> TitleScholar, attr |-> NoAttr]
RowBlank == [cells |-> 5, td_title |-> TRUE, link |-> TRUE, id |-> "3",
             text |-> <<" ", " ">>, attr |-> NoAttr]
RowShort == [cells |-> 3, td_title |-> FALSE, link |-> TRUE, id |-> "4",
             text |-> TitleRecruit, attr |-> NoAttr]
RowAttr == [cells |-> 5, td_title |-> TRUE, link |-> TRUE, id |-> "5",
            text |-> << >>, attr |-> <<" ", "gong", "ji">>]

Rows == {RowGood1, RowGood2, RowNoLink, RowNoId, RowBlank, RowShort, RowAttr}

\* Rows of a page are not counted past this number.
MaxRows == 3

RowSeqs == UNION {[1..n -> Rows] : n \in 0..MaxRows}

\* The bodies of a listing answer: the empty text, or markup with one
\* listing that the selectors of the dialect match or do not match.
EmptyBody == [text |-> "empty", tables |-> << >>]

\* A page with one listing.
OneTable(class, rows) == [text |-> "html", tables |-> <<[class |-> class, rows |-> rows]>>]

\* Every row of a page, in document order.
PageRows(body) == Select(TableClasses, body.tables, 1)

HtmlBodies == {OneTable(class, rows) :
                 class \in {"plain", "bd_tb", "board_rows"}, rows \in RowSeqs}

\* An answer 200 OK.
Ok200(body) == [sent |-> TRUE, status |-> 200, body |-> body]

----------------------------------------------------------------------------
(* The parsers on their own: the first source, configured with any        *)
(* dialect, is served any page with status 200; the second serves nothing. *)

CrawlParsed ==
  /\ cycle.pc = "crawl"
  /\ cycle.src = 1
  /\ \E d \in Dialects, body \in HtmlBodies :
       CrawlFetched(SourceOrder[1], d, Ok200(EmptyBody), Ok200(body))

NextParse ==
  \/ StartWithNotifier
  \/ CrawlParsed
  \/ CrawlQuiet

SpecParse == Init /\ [][NextParse]_vars

----------------------------------------------------------------------------
(* The fetches on their own: the first source, configured with any        *)
(* dialect, is served any answer; the second serves nothing.               *)

\* Listing pages of at most one row.
SmallBodies ==
  {EmptyBody} \cup {OneTable(class, rows) :
                      class \in {"plain", "bd_lst", "board_rows"},
                      rows \in {<< >>, <<RowGood1>>, <<RowNoId>>, <<RowGood2>>}}

Statuses == {200, 404, 500}

\* A request that got no answer.
NotSent == [sent |-> FALSE, status |-> 0, body |-> EmptyBody]

Answers == {NotSent} \cup {[sent |-> TRUE, status |-> st, body |-> b] :
                             st \in Statuses, b \in SmallBodies}

FirstAnswers == {NotSent} \cup {[sent |-> TRUE, status |-> st, body |-> EmptyBody] :
                                  st \in Statuses}

CrawlAnswered ==
  /\ cycle.pc = "crawl"
  /\ cycle.src = 1
  /\ \E d \in Dialects, first \in FirstAnswers, resp \in Answers :
       CrawlFetched(SourceOrder[1], d, first, resp)

NextFetch ==
  \/ StartAnyConfig
  \/ CrawlAnswered
  \/ CrawlQuiet

SpecFetch == Init /\ [][NextFetch]_vars

----------------------------------------------------------------------------
(* The store on its own: Database methods called directly, in any order,   *)
(* as the unit tests of src/src/db.rs do.                                  *)

\* The notice ids and the reasons that the direct calls of log_dm use.
LoggedNotices == {1, 2}

Reasons == {<<"keyword", KwAi>>, <<"source", <<"biz">>>>}

\* db.log_dm(n, u, match_type, match_value)
ApiLogDm(n, u, reason) ==
  /\ dm_log' = log_dm(dm_log, n, u, reason[1], reason[2])
  /\ obs' = [obs EXCEPT
               !.first_log = FirstLog(@, n, u, reason[1], reason[2]),
               !.relogged =
                  IF \E r \in obs.first_log :
                       /\ r.notice_id = n /\ r.telegram_id = u
                       /\ <<r.match_type, r.match_value>> # reason
                  THEN @ \cup {<<n, u>>} ELSE @]
  /\ UNCHANGED <<notices, crawl_state, users, keyword_subs, source_subs, now, cycle, dm>>

\* db.register_user(u, ..)
ApiRegisterUser(u) ==
  /\ users' = register_user(users, u)
  /\ obs' = [obs EXCEPT !.quiet = @ \ {u}]
  /\ UNCHANGED <<notices, crawl_state, keyword_subs, source_subs, dm_log, now, cycle, dm>>

\* db.deactivate_user(u)
ApiDeactivateUser(u) ==
  /\ users' = deactivate_user(users, u)
  /\ obs' = [obs EXCEPT
               !.deactivated = IF users[u].exists THEN @ \cup {u} ELSE @,
               !.quiet = IF users[u].exists THEN @ \cup {u} ELSE @]
  /\ UNCHANGED <<notices, crawl_state, keyword_subs, source_subs, dm_log, now, cycle, dm>>

NextStore ==
  \/ \E n \in LoggedNotices : \E u \in Users : \E reason \in Reasons : ApiLogDm(n, u, reason)
  \/ \E u \in Users : ApiRegisterUser(u)
  \/ \E u \in Users : ApiDeactivateUser(u)

SpecStore == Init /\ [][NextStore]_vars

----------------------------------------------------------------------------
(* The subscription methods of the store called directly, in any order, by *)
(* two users who register and are deactivated at any time.                 *)

\* db.add_keyword_sub(u, kw)
ApiAddKeywordSub(u, kw) ==
  /\ keyword_subs' = add_sub(keyword_subs, u, kw)
  /\ obs' = [obs EXCEPT
               !.call = [op |-> "add_keyword_sub", telegram_id |-> u, keyword |-> kw,
                         source_key |-> "", result |-> add_sub_result(keyword_subs, u, kw)],
               !.held.keyword = @ \cup {<<u, kw>>}]
  /\ UNCHANGED <<notices, crawl_state, users, source_subs, dm_log, now, cycle, dm>>

\* db.remove_keyword_sub(u, kw)
ApiRemoveKeywordSub(u, kw) ==
  /\ keyword_subs' = remove_sub(keyword_subs, u, kw)
  /\ obs' = [obs EXCEPT
               !.call = [op |-> "remove_keyword_sub", telegram_id |-> u, keyword |-> kw,
                         source_key |-> "", result |-> remove_sub_result(keyword_subs, u, kw)],
               !.held.keyword = @ \ {<<u, kw>>}]
  /\ UNCHANGED <<notices, crawl_state, users, source_subs, dm_log, now, cycle, dm>>

\* db.add_source_sub(u, key)
ApiAddSourceSub(u, key) ==
  /\ source_subs' = add_sub(source_subs, u, key)
  /\ obs' = [obs EXCEPT
               !.call = [op |-> "add_source_sub", telegram_id |-> u, keyword |-> << >>,
                         source_key |-> key, result |-> add_sub_result(source_subs, u, key)],
               !.held.source = @ \cup {<<u, key>>}]
  /\ UNCHANGED <<notices, crawl_state, users, keyword_subs, dm_log, now, cycle, dm>>

\* db.remove_source_sub(u, key)
ApiRemoveSourceSub(u, key) ==
  /\ source_subs' = remove_sub(source_subs, u, key)
  /\ obs' = [obs EXCEPT
               !.call = [op |-> "remove_source_sub", telegram_id |-> u, keyword |-> << >>,
                         source_key |-> key, result |-> remove_sub_result(source_subs, u, key)],
               !.held.source = @ \ {<<u, key>>}]
  /\ UNCHANGED <<notices, crawl_state, users, keyword_subs, dm_log, now, cycle, dm>>

NextSubs ==
  \/ \E u \in Users : \E kw \in Keywords : ApiAddKeywordSub(u, kw)
  \/ \E u \in Users : \E kw \in Keywords : ApiRemoveKeywordSub(u, kw)
  \/ \E u \in Users : \E key \in Sources : ApiAddSourceSub(u, key)
  \/ \E u \in Users : \E key \in Sources : ApiRemoveSourceSub(u, key)
  \/ \E u \in Users : ApiRegisterUser(u)
  \/ \E u \in Users : ApiDeactivateUser(u)

SpecSubs == Init /\ [][NextSubs]_vars

----------------------------------------------------------------------------
(* Store errors: a call of a Database method that returns Err (SQLITE_BUSY *)
(* after the busy timeout, a full disk, a read-only file).  One user who   *)
(* subscribes; steady pages, every send answered Ok.                       *)

\* The rows of page without those at the positions in `failed`.
Kept(page, failed) == SelectSeq([k \in 1..Len(page) |-> <<k, page[k]>>],
                               LAMBDA p : p[1] \notin failed)

\* The page of two rows that the first source serves when an insert fails.
FaultPage == <<RawA, RawB>>

\* do_crawl returns Err through a `?`: the rest of the cycle is not run
\* (crawl_loop logs "Crawl cycle failed" and sleeps until the next cycle).
CycleAborted == CycleIdle

\* The Ok arm in which insert_if_new of the row at position k returned Err:
\* the Err arm of the inner match logs it and the loop goes on.
CrawlInsertFault ==
  /\ cycle.pc = "crawl"
  /\ obs.nfault < MaxFaults
  /\ cycle.src = 1
  /\ \E k \in 1..Len(FaultPage) :
       LET s == SourceOrder[cycle.src]
           kept == Kept(FaultPage, {k})
           page == [i \in 1..Len(kept) |-> kept[i][2]]
       IN /\ notices' = InsertPage(notices, s, page, 1, now)
          /\ crawl_state' =
               update_crawl_state(InsertPageState(crawl_state, s, page, now),
                                  s, now, LastId(FaultPage))
          /\ obs' = [obs EXCEPT !.cyc.fetched = @ \cup {s},
                                !.cyc.faults = @ \cup {"insert_if_new"}, !.nfault = @ + 1]
  /\ cycle' = AfterSource
  /\ UNCHANGED <<users, keyword_subs, source_subs, dm_log, now, dm>>

\* The Ok arm in which update_crawl_state returned Err: database
\* .update_crawl_state(..)? returns from do_crawl after the inserts.
CrawlStateFault ==
  /\ cycle.pc = "crawl"
  /\ obs.nfault < MaxFaults
  /\ LET s == SourceOrder[cycle.src]
     IN /\ notices' = InsertPage(notices, s, SteadyPage(s), 1, now)
        /\ crawl_state' = InsertPageState(crawl_state, s, SteadyPage(s), now)
        /\ obs' = [obs EXCEPT !.cyc.fetched = @ \cup {s},
                              !.cyc.faults = @ \cup {"update_crawl_state"}, !.nfault = @ + 1]
  /\ cycle' = CycleAborted
  /\ UNCHANGED <<users, keyword_subs, source_subs, dm_log, now, dm>>

\* The Err arm in which increment_error returned Err: database
\* .increment_error(..)? returns from do_crawl.
CrawlCounterFault ==
  /\ cycle.pc = "crawl"
  /\ obs.nfault < MaxFaults
  /\ obs' = [obs EXCEPT !.cyc.fetched = @ \cup {SourceOrder[cycle.src]},
                        !.cyc.failed = @ \cup {SourceOrder[cycle.src]},
                        !.cyc.faults = @ \cup {"increment_error"}, !.nfault = @ + 1]
  /\ cycle' = CycleAborted
  /\ UNCHANGED <<store, now, dm>>

\* The broadcast step in which mark_notified of the j-th sent notice
\* returned Err: database.mark_notified(*id)? returns from do_crawl after
\* every send was made and j - 1 notices were marked.
BroadcastMarkFault ==
  /\ cycle.pc = "broadcast"
  /\ obs.nfault < MaxFaults
  /\ ~cycle.dry_run
  /\ \E pending \in get_pending(notices, MaxNoticesPerRun) :
       \E j \in 1..Len(pending) :
         /\ notices' = MarkAll(notices, SubSeq(pending, 1, j - 1), 1)
         /\ obs' = [obs EXCEPT !.bcast = [read |-> Range(pending), ok |-> Range(pending),
                                          fail |-> {}, done |-> TRUE],
                               !.cyc.faults = @ \cup {"mark_notified"}, !.nfault = @ + 1]
  /\ cycle' = CycleAborted
  /\ UNCHANGED <<crawl_state, users, keyword_subs, source_subs, dm_log, now, dm>>

\* One candidate of the match loop for which is_dm_sent returned Err:
\* self.db.is_dm_sent(..)? returns from process; do_crawl logs "DM engine
\* failed", counts no DM and goes on to its summary.
DmCheckFault ==
  /\ dm.pc = "send"
  /\ obs.nfault < MaxFaults
  /\ obs' = [obs EXCEPT !.cyc.faults = @ \cup {"is_dm_sent"}, !.nfault = @ + 1]
  /\ DmReturn
  /\ UNCHANGED <<store, now>>

\* One candidate of the match loop whose send_dm answered Ok and whose
\* log_dm returned Err: self.db.log_dm(..)? returns from process, the
\* delivery is not in dm_log.
DmLogFault ==
  /\ dm.pc = "send"
  /\ obs.nfault < MaxFaults
  /\ ~is_dm_sent(dm_log, Head(dm.queue), Head(dm.matches).telegram_id)
  /\ obs' = [Observe(Head(dm.queue), Head(dm.matches), SendOk) EXCEPT
               !.first_log = obs.first_log,
               !.cyc.faults = @ \cup {"log_dm"}, !.nfault = @ + 1]
  /\ DmReturn
  /\ UNCHANGED <<store, now>>

DmSendOk == DmSendWith(SendOk)

NextFault ==
  \/ StartWithNotifier
  \/ CrawlSteady
  \/ CrawlInsertFault
  \/ CrawlStateFault
  \/ CrawlCounterFault
  \/ BroadcastAllOk
  \/ BroadcastMarkFault
  \/ Enrich
  \/ DmBegin
  \/ DmFind
  \/ DmEnd
  \/ DmSkipSent
  \/ DmSendOk
  \/ DmCheckFault
  \/ DmLogFault
  \/ HandleCommandWith(100, {KwAi}, {"biz"})

SpecFault == Init /\ [][NextFault]_vars

----------------------------------------------------------------------------
(* fetch_with_retry (src/src/main.rs): the first source is fetched with    *)
(* retries, each attempt answered on its own; the second serves nothing.   *)

\* let max_retries = 3;
max_retries == 3

\* A backoff that grows by 2 seconds per attempt.
RetryDelayLinear(attempt) == 2 * (attempt + 1)

\* Duration::from_secs(2u64.pow(attempt as u32 + 1)), in seconds.
RetryDelay(attempt) == 2 ^ (attempt + 1)

\* The loop of fetch_with_retry from `attempt` on: results[i] is what
\* parser.fetch_notices returns when it is called for the i-th time, waits
\* the sleeps made so far.  The value: the result returned, the number of
\* calls of fetch_notices, the sleeps.
RECURSIVE RetryFrom(_, _, _)
RetryFrom(results, attempt, waits) ==
  IF attempt > max_retries
  THEN [result |-> FetchErr, attempts |-> attempt, waits |-> waits]
  ELSE IF results[attempt + 1].ok
       THEN [result |-> results[attempt + 1], attempts |-> attempt + 1, waits |-> waits]
       ELSE RetryFrom(results, attempt + 1,
                      IF attempt < max_retries
                      THEN Append(waits, RetryDelay(attempt)) ELSE waits)

fetch_with_retry(results) == RetryFrom(results, 0, << >>)

\* What one call of fetch_notices can return: an error, or one of two pages.
AttemptResults ==
  {FetchErr, [ok |-> TRUE, notices |-> <<RawA>>], [ok |-> TRUE, notices |-> <<RawB>>]}

\* The match of do_crawl on fetch_with_retry for the first source.
CrawlRetriedWith(results, out) ==
  CrawlFetchedWith(SourceOrder[1], out.result,
                   [seen |-> TRUE, results |-> results, out |-> out])

CrawlRetried ==
  /\ cycle.pc = "crawl"
  /\ cycle.src = 1
  /\ \E results \in [1..(max_retries + 1) -> AttemptResults] :
       CrawlRetriedWith(results, fetch_with_retry(results))

\* The sources after the first list no notice.
CrawlOthersQuiet ==
  /\ cycle.pc = "crawl"
  /\ cycle.src > 1
  /\ CrawlOkWith(SourceOrder[cycle.src], << >>)

NextRetry ==
  \/ StartWithNotifier
  \/ CrawlRetried
  \/ CrawlOthersQuiet
  \/ BroadcastAllOk
  \/ Enrich
  \/ DmBegin
  \/ DmFind
  \/ DmEnd

SpecRetry == Init /\ [][NextRetry]_vars

----------------------------------------------------------------------------
(* The DM engine over several days: steady pages, every broadcast sent,    *)
(* any answer to a DM send, commands of one user between the cycles.       *)

DmSendTracked == \E result \in SendResults : DmSendObserved(result, TRUE)

\* A command that arrives while no cycle runs.
CommandBetweenCycles ==
  /\ cycle.pc = "idle"
  /\ HandleCommandWith(100, {KwAi}, {"biz"})

NextResend ==
  \/ Tick
  \/ StartWithNotifier
  \/ CrawlSteady
  \/ BroadcastAllOk
  \/ Enrich
  \/ DmBegin
  \/ DmFind
  \/ DmEnd
  \/ DmSkipSent
  \/ DmSendTracked
  \/ CommandBetweenCycles

SpecResend == Init /\ [][NextResend]_vars

----------------------------------------------------------------------------
(* The deadline step around New Year: day 0 of the clock is 31 December of *)
(* the reference year, every later day is in the next year.                *)

\* Local::now().format("%Y") on day t.
YearOf(t) == RefYear + (IF t > 0 THEN 1 ELSE 0)

EnrichAcrossYears == EnrichIn(YearOf(now))

\* Titles with a full date, with a month-day date, and without a date.
YearTitles == {TitleD1, TitleD2, TitleD4}

CrawlYearTitled ==
  \E s \in Sources, title \in YearTitles :
    CrawlOkWith(s, <<[RawA EXCEPT !.title = title]>>)

NextYear ==
  \/ Tick
  \/ StartWithNotifier
  \/ CrawlYearTitled
  \/ BroadcastAllOk
  \/ EnrichAcrossYears
  \/ DmBegin
  \/ DmFind
  \/ DmEnd

SpecYear == Init /\ [][NextYear]_vars

----------------------------------------------------------------------------
(* The selector candidates on their own: the first source, configured with *)
(* any dialect, is served pages of several listings with status 200; the   *)
(* second serves nothing.                                                  *)

\* A page has at most this many listings.
MaxTables == 2

\* One listing of a page: its rows are all skipped (too few cells), or one
\* is read, or the second of two is.
PageTables ==
  {[class |-> class, rows |-> rows] :
     class \in {"board-list", "bbs-list", "gitav_table_skin1", "bd_lst", "bd_tb",
                "board_rows", "plain"},
     rows \in {<<RowShort>>, <<RowGood1>>, <<RowNoId, RowGood2>>}}

SelectBodies ==
  {[text |-> "html", tables |-> tables] :
     tables \in UNION {[1..n -> PageTables] : n \in 0..MaxTables}}

CrawlSelected ==
  /\ cycle.pc = "crawl"
  /\ cycle.src = 1
  /\ \E d \in Dialects, body \in SelectBodies :
       CrawlFetched(SourceOrder[1], d, Ok200(EmptyBody), Ok200(body))

NextSelect ==
  \/ StartWithNotifier
  \/ CrawlSelected
  \/ CrawlQuiet

SpecSelect == Init /\ [][NextSelect]_vars

----------------------------------------------------------------------------
(* Fetches without notices: in every cycle the first source, an egov or an *)
(* xe_board site, is not reached, answers 500, or answers 200 with no      *)
(* body, with markup that holds no row, with rows that no candidate of the *)
(* dialect matches or that all are skipped, or with a row that is read;    *)
(* the second source serves nothing.                                       *)

ZeroAnswers ==
  {NotSent, [sent |-> TRUE, status |-> 500, body |-> EmptyBody]}
    \cup {Ok200(body) :
            body \in {EmptyBody, OneTable("bd_lst", << >>), OneTable("plain", <<RowNoId>>),
                      OneTable("plain", <<RowGood1>>), OneTable("bd_lst", <<RowGood2>>)}}

CrawlZero ==
  /\ cycle.pc = "crawl"
  /\ cycle.src = 1
  /\ \E d \in {"egov", "xe_board"}, resp \in ZeroAnswers :
       CrawlFetched(SourceOrder[1], d, Ok200(EmptyBody), resp)

NextZero ==
  \/ Tick
  \/ StartWithNotifier
  \/ CrawlZero
  \/ CrawlOthersQuiet
  \/ BroadcastAllOk
  \/ Enrich
  \/ DmBegin
  \/ DmFind
  \/ DmEnd

SpecZero == Init /\ [][NextZero]_vars

----------------------------------------------------------------------------
(* Listing pages with a pinned row: the first source serves a notice of    *)
(* 1 March and a notice of 5 March; on some pages the older one is pinned  *)
(* and so is the first row.  The second source serves nothing.             *)

RawC == [notice_id |-> "3", title |-> TitlePlain, url |-> "u3",
         author |-> NULL, date |-> "2026-03-05"]

\* The day of March 2026 a raw notice of these pages is dated.
PublishedDay(notice) ==
  CASE notice.date = "2026-03-01" -> 1
    [] notice.date = "2026-03-02" -> 2
    [] notice.date = "2026-03-05" -> 5

PinnedPages == {<<RawC>>, <<RawC, RawA>>, <<RawA, RawC>>}

\* The crawl of the first source, with the sequence the fetch returned kept.
CrawlPinned ==
  /\ cycle.pc = "crawl"
  /\ cycle.src = 1
  /\ \E page \in PinnedPages :
       CrawlOkSeen(SourceOrder[1], page,
                   [seen |-> TRUE, result |-> [ok |-> TRUE, notices |-> page]])

NextPinned ==
  \/ Tick
  \/ StartWithNotifier
  \/ CrawlPinned
  \/ CrawlOthersQuiet
  \/ BroadcastAllOk
  \/ Enrich
  \/ DmBegin
  \/ DmFind
  \/ DmEnd

SpecPinned == Init /\ [][NextPinned]_vars

----------------------------------------------------------------------------
(* Serve mode (run_serve): the front end works on the Database that        *)
(* run_serve opened, behind state.db (a Mutex); the crawl thread calls     *)
(* do_crawl, which opens a Database of its own on the same file for the    *)
(* length of the cycle.  The statements of the two connections are atomic  *)
(* (SQLite), the store calls that consist of two statements are not:       *)
(* increment_error is an upsert and then a SELECT of the counter.          *)

\* The Database values that are open: db::Database::init in run_serve and
\* in do_crawl.
StoreInstances == {"front"} \cup (IF cycle.pc # "idle" THEN {"cycle"} ELSE {})

\* increment_error, its first statement: the upsert of the counter.
IncrementErrorUpsert ==
  /\ cycle.pc = "crawl"
  /\ obs.inop = "none"
  /\ crawl_state[SourceOrder[cycle.src]].error_count < MaxErr
  /\ crawl_state' = increment_error(crawl_state, SourceOrder[cycle.src], now)
  /\ obs' = [obs EXCEPT !.inop = "increment_error"]
  /\ UNCHANGED <<notices, users, keyword_subs, source_subs, dm_log, now, cycle, dm>>

\* increment_error, its second statement, and the rest of the Err arm of
\* do_crawl with the count it returned.
IncrementErrorSelect ==
  /\ cycle.pc = "crawl"
  /\ obs.inop = "increment_error"
  /\ LET s == SourceOrder[cycle.src]
         err_count == crawl_state[s].error_count
     IN obs' = [obs EXCEPT !.inop = "none",
                           !.fails[s] = @ + 1,
                           !.ret[s] = err_count,
                           !.cyc.fetched = @ \cup {s},
                           !.cyc.failed = @ \cup {s},
                           !.cyc.alerts = AlertsAfter(@, s, err_count),
                           !.run_alerts[s] =
                              IF AlertsAfter(obs.cyc.alerts, s, err_count) # obs.cyc.alerts
                              THEN @ + 1 ELSE @]
  /\ cycle' = AfterSourceError
  /\ UNCHANGED <<store, now, dm>>

\* A crawl that succeeds (no store call of the cycle is under way).
CrawlSteadyServed == obs.inop = "none" /\ CrawlSteady

\* A command of the one user of this scenario, at any time.
CommandServed == HandleCommandWith(100, {KwAi}, {"biz"})

NextServe ==
  \/ StartWithNotifier
  \/ CrawlSteadyServed
  \/ IncrementErrorUpsert
  \/ IncrementErrorSelect
  \/ BroadcastAllOk
  \/ Enrich
  \/ DmBegin
  \/ DmFind
  \/ DmEnd
  \/ DmSkipSent
  \/ DmSendOk
  \/ CommandServed

SpecServe == Init /\ [][NextServe]_vars

----------------------------------------------------------------------------
(* A backlog: the first source serves three notices at once, more than a   *)
(* broadcast step reads; the second source, which serves two notices or    *)
(* nothing, is routed by channel_map to a channel the bot cannot post to,  *)
(* so that every send of its notices fails, and every other send succeeds. *)
(* The cycles keep running: WF on every step of the crawl loop.            *)

\* The second source publishes its notices after a day on which the
\* notices of the first were stored, so that they are the newer ones.
BacklogPages(source_key) ==
  IF source_key = SourceOrder[1] THEN {<<RawA, RawB, RawC>>}
  ELSE IF \E i \in 1..Len(notices) : notices[i].crawled_at < now
       THEN {<< >>, <<RawAEdited, RawB>>}
       ELSE {<< >>}

CrawlBacklog ==
  /\ cycle.pc = "crawl"
  /\ \E page \in BacklogPages(SourceOrder[cycle.src]) :
       CrawlOkWith(SourceOrder[cycle.src], page)

\* send_batch with the channel of the second source rejecting every send.
BroadcastRouted ==
  /\ cycle.pc = "broadcast"
  /\ ~cycle.dry_run
  /\ \E pending \in get_pending(notices, MaxNoticesPerRun) :
       BroadcastAnswered(pending,
                         [k \in 1..Len(pending) |->
                            notices[pending[k]].source_key = SourceOrder[1]],
                         FALSE)

NextBacklog ==
  \/ Tick
  \/ StartWithNotifier
  \/ CrawlBacklog
  \/ BroadcastRouted
  \/ Enrich
  \/ DmBegin
  \/ DmFind
  \/ DmEnd

\* The cycle leaves the deadline step; under NextBacklog the steps that do
\* are those of Enrich, which is enabled whenever the cycle is at it.
EnrichDone ==
  /\ cycle.pc = "deadline"
  /\ cycle' \in {[cycle EXCEPT !.pc = "dm"], [cycle EXCEPT !.pc = "panicked"]}

\* crawl_loop: loop { do_crawl(..).await; sleep(interval).await }
CrawlLoopFair ==
  /\ WF_vars(StartWithNotifier)
  /\ WF_vars(CrawlBacklog)
  /\ WF_vars(BroadcastRouted)
  /\ WF_cycle(EnrichDone)
  /\ WF_vars(DmBegin)
  /\ WF_vars(DmFind)
  /\ WF_vars(DmEnd)

SpecBacklog == Init /\ [][NextBacklog]_vars /\ CrawlLoopFair

----------------------------------------------------------------------------
(* The crawl loop of serve mode under a configuration whose second source  *)
(* names a parser that create_parser does not know.  The fetch of the      *)
(* first source succeeds or fails, and a store call of its crawl can       *)
(* return an error.  Every step of the loop is taken when it can be.       *)

\* create_parser: the parser of a known dialect, or a panic.
create_parser(parser) == [panic |-> parser \notin Dialects, dialect |-> parser]

\* [[sources]] parser = ".." of the configuration of this scenario.
LoopParser(source_key) == IF source_key = SourceOrder[1] THEN "egov" ELSE "rss"

\* parser::create_parser(source_cfg) at the head of the loop over the sources.
ParserCreated ==
  /\ cycle.pc = "crawl"
  /\ ~create_parser(LoopParser(SourceOrder[cycle.src])).panic

\* panic!("Unknown parser type: {other}"): the thread of crawl_loop ends.
CreateParserPanics ==
  /\ cycle.pc = "crawl"
  /\ create_parser(LoopParser(SourceOrder[cycle.src])).panic
  /\ cycle' = [cycle EXCEPT !.pc = "panicked"]
  /\ UNCHANGED <<store, now, dm, obs>>

\* The pages the board of the first source serves.
LoopPages == {<< >>, <<RawA>>, <<RawB>>, <<RawC>>, <<RawA, RawB>>, <<RawAEdited, RawC>>}

CrawlLoopOk ==
  /\ ParserCreated
  /\ \E page \in LoopPages : CrawlOkWith(SourceOrder[cycle.src], page)

CrawlLoopErr == ParserCreated /\ CrawlErr

CrawlLoopStateFault == ParserCreated /\ CrawlStateFault

CrawlLoopCounterFault == ParserCreated /\ CrawlCounterFault

NextLoop ==
  \/ Tick
  \/ StartWithNotifier
  \/ CreateParserPanics
  \/ CrawlLoopOk
  \/ CrawlLoopErr
  \/ CrawlLoopStateFault
  \/ CrawlLoopCounterFault

\* crawl_loop: loop { do_crawl(..).await; sleep(interval).await }
LoopFair ==
  /\ WF_vars(StartWithNotifier)
  /\ WF_vars(CreateParserPanics)
  /\ WF_vars(CrawlLoopOk)
  /\ WF_vars(CrawlLoopErr)

SpecLoop == Init /\ [][NextLoop]_vars /\ LoopFair

----------------------------------------------------------------------------
(* Properties                                                              *)

C2_InsertIfNewOnce ==
  /\ [](/\ \A i, j \in 1..Len(notices) :
             i # j => <<notices[i].source_key, notices[i].notice_id>>
                        # <<notices[j].source_key, notices[j].notice_id>>
        /\ {<<notices[i].source_key, notices[i].notice_id>> : i \in 1..Len(notices)}
             = obs.ins_seen
        /\ obs.ins_bad = {})
  /\ [][\A i \in 1..Len(notices) :
          /\ i <= Len(notices')
          /\ notices'[i].source_key = notices[i].source_key
          /\ notices'[i].notice_id = notices[i].notice_id
          /\ notices'[i].title = notices[i].title
          /\ notices'[i].url = notices[i].url
          /\ notices'[i].category = notices[i].category
          /\ (cycle.pc = "crawl" => notices'[i] = notices[i])]_vars

\* A notified row that a later page hit again under another title and
\* another url, and that still carries what the first insert stored.
C2_Witness ==
  \E i \in obs.rehit :
    /\ notices[i].title = RawA.title
    /\ notices[i].url = RawA.url
    /\ notices[i].category = "scholarship"

C4_NotifiedNeverReverts ==
  [][\A i \in 1..Len(notices) :
       notices[i].notified => (i <= Len(notices') /\ notices'[i].notified)]_vars

\* A notified row that was inserted again in a later cycle and is still
\* notified now that the cycle is over.
C4_Witness ==
  /\ cycle.pc = "idle"
  /\ \E i \in obs.rehit : notices[i].notified /\ obs.bcast.done

C6_PassGoesOn ==
  /\ obs.pass.candidates \subseteq
       obs.pass.attempted \cup obs.pass.skipped
         \cup (IF dm.pc = "send"
               THEN {<<Head(dm.queue), dm.matches[i].telegram_id>> : i \in 1..Len(dm.matches)}
               ELSE {})
  /\ obs.pass.done => obs.pass.visited = obs.pass.notices

\* A finished pass with a failed send, after which the same notice was
\* still attempted for another user and another notice was attempted too.
C6_Witness ==
  /\ obs.pass.done
  /\ \E f \in obs.pass.failed :
       /\ \E a \in obs.pass.after_fail : a[1] = f[1] /\ a[2] # f[2]
       /\ \E b \in obs.pass.after_fail : b[1] # f[1]

\* C7: is_dm_sent is false for a pair before any log_dm of it and true
\* after the first; a second log_dm of the pair succeeds, adds no row and
\* keeps the reason of the first.
C7_LogOnce ==
  /\ dm_log = obs.first_log
  /\ \A n \in LoggedNotices : \A u \in Users :
       /\ is_dm_sent(dm_log, n, u)
            <=> (\E r \in obs.first_log : r.notice_id = n /\ r.telegram_id = u)
       /\ Cardinality({r \in dm_log : r.notice_id = n /\ r.telegram_id = u}) <= 1

\* A pair logged a second time with another reason than the first.
C7_Witness ==
  \E p \in obs.relogged :
    /\ is_dm_sent(dm_log, p[1], p[2])
    /\ \E r \in dm_log : r.notice_id = p[1] /\ r.telegram_id = p[2]

\* C8, as stated: a user that deactivate_user has deactivated is never
\* returned again by get_source_subscribers or get_all_keyword_subs,
\* whatever commands follow.
C8_Original ==
  \A u \in obs.deactivated :
    /\ \A s \in Sources : u \notin get_source_subscribers(source_subs, users, s)
    /\ \A p \in get_all_keyword_subs(keyword_subs, users) : p[1] # u

\* C8: deactivate_user clears the active flag of the user and only
\* register_user, which every command of that user runs, sets it again:
\* until the user sends a command, get_source_subscribers and
\* get_all_keyword_subs do not return the user, and a DM pass that started
\* after the deactivation attempts no delivery to them.
C8_InactiveUntilCommand ==
  \A u \in obs.quiet :
    /\ ~users[u].is_active
    /\ \A s \in Sources : u \notin get_source_subscribers(source_subs, users, s)
    /\ \A p \in get_all_keyword_subs(keyword_subs, users) : p[1] # u
    /\ u \in obs.pass.dormant => \A a \in obs.pass.attempted : a[2] # u

\* A pass that began and ended while a deactivated user, still holding a
\* keyword that matches a notice of the pass, had sent no command:
\* nothing was attempted for that user.
C8_Witness ==
  /\ obs.pass.done
  /\ \E u \in obs.quiet \cap obs.pass.dormant :
       /\ \E p \in keyword_subs : p[1] = u
       /\ \E id \in obs.pass.notices :
            contains(to_lowercase(notices[id].title), to_lowercase(KwAi))
       /\ \A a \in obs.pass.attempted : a[2] # u

\* C9: a failed DM send deactivates the recipient when, and only when, the
\* failure says that the user blocked the bot; any other failure leaves
\* every active flag as it is; no failed send writes a dm_log row.
C9_DeactivateOnlyWhenBlocked ==
  [][\A result \in SendResults \ {SendOk} :
       DmSendWith(result) =>
         LET u == Head(dm.matches).telegram_id
         IN /\ dm_log' = dm_log
            /\ IF result = ErrBlocked
               THEN /\ ~users'[u].is_active
                    /\ \A v \in Users \ {u} : users'[v] = users[v]
               ELSE users' = users]_vars

\* One pass in which a send to one user failed because the bot is blocked
\* and a send to another failed for another reason: the first user is
\* inactive, the second still active, and neither pair is in dm_log.
C9_Witness ==
  \E p, q \in obs.pass.failed :
    /\ p[2] \in obs.quiet
    /\ ~users[p[2]].is_active
    /\ q[2] \notin obs.deactivated
    /\ users[q[2]].is_active
    /\ ~is_dm_sent(dm_log, p[1], p[2])
    /\ ~is_dm_sent(dm_log, q[1], q[2])

\* C10: the error counter of a source is the number of terminal failures
\* of the source since its last successful crawl, and increment_error
\* returns the new value of the counter.
C10_ConsecutiveFailures ==
  \A s \in Sources :
    /\ crawl_state[s].error_count = obs.fails[s]
    /\ obs.fails[s] > 0 => obs.ret[s] = obs.fails[s]

\* A source that was crawled with success and has failed three times in a
\* row since: the third increment_error returned 3.
C10_Witness ==
  /\ crawl_state["biz"].last_notice_id # NULL
  /\ obs.fails["biz"] = 3
  /\ obs.ret["biz"] = 3

\* C11: a terminal fetch failure of one source does not end the cycle:
\* a cycle in which a source failed ends only after every enabled source
\* was visited by the crawl loop and the broadcast step, the deadline step
\* and (with a notifier) the DM pass have run.
C11_CycleSurvivesFailure ==
  [][(cycle.pc # "idle" /\ cycle'.pc = "idle" /\ obs'.cyc.failed # {})
       => /\ obs'.cyc.fetched = Sources
          /\ obs'.bcast.done
          /\ obs'.cyc.enriched
          /\ (cycle.dry_run \/ obs'.pass.done)]_vars

\* A finished cycle in which the first source failed: the second source
\* was crawled all the same, its new notice was broadcast, and the DM pass
\* went over it.
C11_Witness ==
  /\ cycle.pc = "idle"
  /\ obs.cyc.failed = {"biz"}
  /\ obs.cyc.fetched = Sources
  /\ obs.bcast.ok # {}
  /\ obs.cyc.enriched
  /\ obs.pass.done
  /\ obs.pass.notices # {}

C13_Original ==
  [][\A s \in Sources :
       obs'.fails[s] = obs.fails[s] + 1
         => /\ obs'.fails[s] < 5 => ~\E a \in obs'.cyc.alerts : a[1] = s
            /\ obs'.fails[s] = 5 => \E a \in obs'.cyc.alerts : a[1] = s]_vars

\* C13: no alert is emitted for a source whose failure brings its counter
\* to less than 5; when a terminal failure brings the counter to 5, an
\* alert is sent to the log channel in that cycle if the cycle has a
\* notifier and a log channel is configured, and no alert is emitted
\* otherwise (dry run, or no log channel).
C13_AlertAtThreshold ==
  [][\A s \in Sources :
       obs'.fails[s] = obs.fails[s] + 1
         => /\ obs'.fails[s] < 5 => ~\E a \in obs'.cyc.alerts : a[1] = s
            /\ obs'.fails[s] = 5
                 => ((\E a \in obs'.cyc.alerts : a[1] = s)
                       <=> (~cycle.dry_run /\ cycle.log_channel))]_vars

\* A cycle with a notifier and a log channel in which the fifth failure in
\* a row of a source has just raised the alert.
C13_Witness ==
  /\ cycle.pc # "idle"
  /\ ~cycle.dry_run
  /\ cycle.log_channel
  /\ obs.fails["biz"] = 5
  /\ crawl_state["biz"].error_count = 5
  /\ <<"biz", 5>> \in obs.cyc.alerts

C15_Original ==
  \A i \in 1..Len(notices) :
    LET t == notices[i].title
    IN /\ notices[i].category =
            IF HasAny(t, AcademicKeywords) THEN "academic"
            ELSE IF HasAny(t, ScholarshipKeywords) THEN "scholarship"
            ELSE IF HasAny(t, RecruitKeywords) THEN "recruit"
            ELSE IF HasAny(t, ContestKeywords) THEN "contest"
            ELSE IF HasAny(t, EventKeywords) THEN "event"
            ELSE "general"
       /\ (HasAny(t, ScholarshipKeywords) /\ HasAny(t, ContestKeywords))
            => notices[i].category = "scholarship"

\* C15: the category of a stored title is that of the first rule, in the
\* order academic, scholarship, recruit, contest, event, with a keyword in
\* the lower-cased title, general when there is none; and a title with
\* both a scholarship term and a contest term, and no academic term, is
\* scholarship, not contest.
C15_FirstRuleWins ==
  \A i \in 1..Len(notices) :
    LET t == notices[i].title
    IN /\ notices[i].category =
            IF HasAny(t, AcademicKeywords) THEN "academic"
            ELSE IF HasAny(t, ScholarshipKeywords) THEN "scholarship"
            ELSE IF HasAny(t, RecruitKeywords) THEN "recruit"
            ELSE IF HasAny(t, ContestKeywords) THEN "contest"
            ELSE IF HasAny(t, EventKeywords) THEN "event"
            ELSE "general"
       /\ (HasAny(t, ScholarshipKeywords) /\ HasAny(t, ContestKeywords)
              /\ ~HasAny(t, AcademicKeywords))
            => notices[i].category = "scholarship"

\* Two stored rows: the priority title of test_classify, classified
\* scholarship, and a title with a scholarship, a contest and an academic
\* term, classified academic.
C15_Witness ==
  /\ Len(notices) = 2
  /\ notices[1].title = TitleT7
  /\ notices[1].category = "scholarship"
  /\ notices[2].title = TitleT9
  /\ notices[2].category = "academic"

\* C16: after the deadline step, the deadline of a row whose title has a
\* deadline keyword with a date token within the 40 characters in front of
\* it is the date of that window (the full date before the month-day date,
\* the first keyword with a valid date deciding).
C16_KeywordWindow ==
  obs.cyc.enriched
    => \A i \in 1..Len(notices) :
         (notices[i].notified /\ WindowDate(notices[i].title, RefYear, 1) # None)
           => notices[i].deadline = FormatDate(WindowDate(notices[i].title, RefYear, 1))

\* C17: after the deadline step, the deadline of a row whose title gave no
\* keyword-adjacent date is the last valid full-date token of the title if
\* there is one, otherwise the last valid month-day token, and the row has
\* no deadline when no token is a valid date.
C17_FallbackLast ==
  (obs.cyc.enriched /\ cycle.pc # "panicked")
    => \A i \in 1..Len(notices) :
         (notices[i].notified /\ KeywordLoop(notices[i].title, RefYear, 1) = None)
           => LET vf == {m \in FullTokens(notices[i].title, 1) : parse_ymd(m) # None}
                  vm == {m \in MdTokens(notices[i].title, 1) : parse_md(RefYear, m) # None}
              IN notices[i].deadline =
                   IF vf # {}
                   THEN FormatDate(parse_ymd(CHOOSE m \in vf : \A n \in vf : n.end <= m.end))
                   ELSE IF vm # {}
                   THEN FormatDate(parse_md(RefYear,
                                            CHOOSE m \in vm : \A n \in vm : n.end <= m.end))
                   ELSE NoDeadline

\* After the deadline step: a row with two full dates and no keyword has
\* the second one, and a row with no valid full date has its last valid
\* month-day date.
C17_Witness ==
  /\ cycle.pc = "dm"
  /\ obs.cyc.enriched
  /\ Len(notices) = 2
  /\ notices[1].title = TitleD8
  /\ notices[1].deadline = <<2026, 3, 15>>
  /\ notices[2].title = TitleD12
  /\ notices[2].deadline = <<2026, 2, 7>>

\* C18: the notices a parser returns for a page are those of its rows in
\* page order: each comes from a row with a numeric id and a title that is
\* not empty, a row without one is left out, and every row that has all a
\* dialect reads (cells, link, id, title) is returned whatever the rows
\* around it lack.
C18_BadRowsSkipped ==
  (obs.fetch.seen /\ obs.fetch.result.ok)
    => LET rows == PageRows(obs.fetch.resp.body)
           out == obs.fetch.result.notices
       IN /\ \A j \in 1..Len(out) :
               out[j].notice_id \notin {NULL, ""} /\ out[j].title # << >>
          /\ \E f \in [1..Len(out) -> 1..Len(rows)] :
               /\ \A i, j \in 1..Len(out) : i < j => f[i] < f[j]
               /\ \A j \in 1..Len(out) :
                    /\ rows[f[j]].id = out[j].notice_id
                    /\ Trim(rows[f[j]].text) # << >> \/ Trim(rows[f[j]].attr) # << >>
               /\ (\E c \in DOMAIN table_selectors(obs.fetch.dialect) :
                     \A t \in DOMAIN obs.fetch.resp.body.tables :
                       obs.fetch.resp.body.tables[t].class
                         \in table_selectors(obs.fetch.dialect)[c])
                    => \A k \in 1..Len(rows) :
                         (/\ rows[k].cells >= 4 /\ rows[k].td_title /\ rows[k].link
                          /\ rows[k].id # NULL /\ Trim(rows[k].text) # << >>
                          /\ rows[k].attr = NoAttr)
                           => \E j \in 1..Len(out) :
                                f[j] = k /\ out[j].title = Trim(rows[k].text)

\* A page whose second row has no id in its href, between two rows that
\* have all: the parser returned the first and the third row, in this
\* order, the title of the first trimmed.
C18_Witness ==
  /\ obs.fetch.seen
  /\ obs.fetch.result.ok
  /\ PageRows(obs.fetch.resp.body) = <<RowGood1, RowNoId, RowGood2>>
  /\ obs.fetch.result.notices =
       << [notice_id |-> "1", title |-> <<"A", "I", " ", "mo", "jip">>, url |-> "u1",
           author |-> NULL, date |-> NULL],
          [notice_id |-> "2", title |-> TitlePlain, url |-> "u2",
           author |-> NULL, date |-> NULL] >>

\* C19: a fetch in which a request got a non-success status, or in which
\* the listing request got an empty body, returned an error.
C19_BadAnswerIsError ==
  obs.fetch.seen
    => LET d == obs.fetch.dialect
           first == obs.fetch.first
           resp == obs.fetch.resp
           listed == d = "php_master" => first.sent
       IN (\/ d = "php_master" /\ first.sent /\ first.status \notin {200}
           \/ listed /\ resp.sent /\ resp.status \notin {200}
           \/ listed /\ resp.sent /\ resp.body.text = "empty")
            => ~obs.fetch.result.ok

\* C20: get_pending(limit) returns only rows with notified = false, at
\* most limit of them and as many as there are up to the limit, the most
\* recently crawled first and none left out for an older one; and a
\* broadcast step reads at most max_notices_per_run notices, marks none
\* but those, and leaves every other pending notice pending.
C20_PendingLimit ==
  /\ [](\A q \in get_pending(notices, MaxNoticesPerRun) :
          /\ Len(q) <= MaxNoticesPerRun
          /\ Len(q) = MaxNoticesPerRun \/ Len(q) = Cardinality(PendingIds(notices))
          /\ \A k \in 1..Len(q) : q[k] \in 1..Len(notices) /\ ~notices[q[k]].notified
          /\ \A j, k \in 1..Len(q) :
               j < k => q[j] # q[k] /\ notices[q[j]].crawled_at >= notices[q[k]].crawled_at
          /\ \A i \in PendingIds(notices) :
               (\A k \in 1..Len(q) : q[k] # i)
                 => \A k \in 1..Len(q) : notices[q[k]].crawled_at >= notices[i].crawled_at)
  /\ [][(cycle.pc = "broadcast" /\ cycle'.pc = "deadline")
         => /\ Cardinality(obs'.bcast.read) <= MaxNoticesPerRun
            /\ obs'.bcast.read \subseteq PendingIds(notices)
            /\ Cardinality({i \in 1..Len(notices) :
                              ~notices[i].notified /\ notices'[i].notified})
                 <= MaxNoticesPerRun
            /\ \A i \in PendingIds(notices) \ obs'.bcast.read :
                 i \in PendingIds(notices')]_vars

\* A broadcast step that found more pending notices than the limit: it
\* read and sent max_notices_per_run of them, and an older one is still
\* pending.
C20_Witness ==
  /\ cycle.pc = "deadline"
  /\ ~cycle.dry_run
  /\ Cardinality(obs.bcast.read) = MaxNoticesPerRun
  /\ obs.bcast.ok = obs.bcast.read
  /\ \E i \in PendingIds(notices) :
       /\ i \notin obs.bcast.read
       /\ \A r \in obs.bcast.read : notices[r].crawled_at >= notices[i].crawled_at

\* C21: adding a keyword or source subscription that the user already
\* holds returns false and leaves the subscriptions unchanged; adding a new
\* one returns true and adds it; removing an absent one returns false and
\* changes nothing, removing a held one returns true and removes only it;
\* after any sequence of adds and removes get_user_subs lists each held
\* subscription of the user exactly once, and nothing else.
C21_SubsIdempotent ==
  /\ [](\A u \in Users :
          LET l == get_user_subs(keyword_subs, source_subs, u)
          IN /\ {l.keywords[i] : i \in 1..Len(l.keywords)}
                  = {p[2] : p \in {q \in obs.held.keyword : q[1] = u}}
             /\ {l.sources[i] : i \in 1..Len(l.sources)}
                  = {p[2] : p \in {q \in obs.held.source : q[1] = u}}
             /\ \A i, j \in 1..Len(l.keywords) : i # j => l.keywords[i] # l.keywords[j]
             /\ \A i, j \in 1..Len(l.sources) : i # j => l.sources[i] # l.sources[j])
  /\ [][(obs'.call # obs.call \/ keyword_subs' # keyword_subs \/ source_subs' # source_subs)
         => LET c == obs'.call
                kp == <<c.telegram_id, c.keyword>>
                sp == <<c.telegram_id, c.source_key>>
            IN /\ c.op = "add_keyword_sub"
                    => /\ c.result = (kp \notin obs.held.keyword)
                       /\ keyword_subs' = keyword_subs \cup {kp}
                       /\ source_subs' = source_subs
               /\ c.op = "remove_keyword_sub"
                    => /\ c.result = (kp \in obs.held.keyword)
                       /\ keyword_subs' = keyword_subs \ {kp}
                       /\ source_subs' = source_subs
               /\ c.op = "add_source_sub"
                    => /\ c.result = (sp \notin obs.held.source)
                       /\ source_subs' = source_subs \cup {sp}
                       /\ keyword_subs' = keyword_subs
               /\ c.op = "remove_source_sub"
                    => /\ c.result = (sp \in obs.held.source)
                       /\ source_subs' = source_subs \ {sp}
                       /\ keyword_subs' = keyword_subs]_vars

\* As in test_user_registration_and_subs: a user who holds two keywords and
\* a source has just added one of the keywords again; the call answered
\* false and the listing still shows the two keywords, in order, and the
\* source.
C21_Witness ==
  /\ obs.call = [op |-> "add_keyword_sub", telegram_id |-> 100, keyword |-> KwScholar,
                 source_key |-> "", result |-> FALSE]
  /\ get_user_subs(keyword_subs, source_subs, 100)
       = [keywords |-> <<KwAi, KwScholar>>, sources |-> <<"main">>]

\* C22: in every state get_source_subscribers and get_all_keyword_subs
\* return only users whose is_active flag is set (registered, and not
\* deactivated since their last registration), and they return every held
\* subscription of such a user that matches the query; deactivating a user
\* leaves the user's subscriptions in the store.
C22_ActiveOnly ==
  /\ [](/\ \A s \in Sources :
             get_source_subscribers(source_subs, users, s)
               = {u \in Users : /\ users[u].exists
                                /\ u \notin obs.quiet
                                /\ <<u, s>> \in obs.held.source}
        /\ get_all_keyword_subs(keyword_subs, users)
             = {p \in obs.held.keyword : users[p[1]].exists /\ p[1] \notin obs.quiet}
        /\ \A u \in Users : users[u].exists => (users[u].is_active <=> u \notin obs.quiet))
  /\ [][users' # users => (keyword_subs' = keyword_subs /\ source_subs' = source_subs)]_vars

\* As in test_source_subscribers: two registered users subscribed to biz,
\* one of them deactivated since; the rows of both are in the store and the
\* query returns the active one only; the keyword of the deactivated user
\* is not returned either, the keyword of the active user is.
C22_Witness ==
  /\ {<<100, "biz">>, <<200, "biz">>} \subseteq source_subs
  /\ {<<100, KwAi>>, <<200, KwAi>>} \subseteq keyword_subs
  /\ users[100].is_active
  /\ users[200].exists /\ ~users[200].is_active
  /\ 200 \in obs.deactivated
  /\ get_source_subscribers(source_subs, users, "biz") = {100}
  /\ get_all_keyword_subs(keyword_subs, users) = {p \in keyword_subs : p[1] = 100}

\* C23, as stated: each unbroken run of terminal failures of a source
\* produces at most one operator alert.
C23_Original == \A s \in Sources : obs.run_alerts[s] <= 1

\* C23: after the alert for a source has been emitted at the threshold, a
\* further alert is emitted at every later terminal failure of that source
\* in a cycle that has a notifier and a log channel (none in a dry run or
\* without a log channel), until a successful crawl has reset its counter:
\* an unbroken run of n terminal failures produces at most n - 4 alerts, one
\* per failure from the fifth on.
C23_AlertEveryFailure ==
  /\ [](\A s \in Sources :
          /\ obs.run_alerts[s] <= (IF obs.fails[s] >= 5 THEN obs.fails[s] - 4 ELSE 0)
          /\ crawl_state[s].error_count = 0 => obs.run_alerts[s] = 0)
  /\ [][\A s \in Sources :
          (obs'.fails[s] = obs.fails[s] + 1 /\ obs.run_alerts[s] >= 1)
            => /\ (\E a \in obs'.cyc.alerts \ obs.cyc.alerts : a[1] = s)
                    <=> (~cycle.dry_run /\ cycle.log_channel)
               /\ obs'.run_alerts[s] =
                    obs.run_alerts[s] + (IF ~cycle.dry_run /\ cycle.log_channel THEN 1 ELSE 0)]_vars

\* A source that has failed six times in a row, in cycles with a notifier
\* and a log channel: the alert of the fifth failure was followed by the
\* alert of the sixth.
C23_Witness ==
  /\ obs.fails["biz"] = 6
  /\ obs.run_alerts["biz"] = 2
  /\ <<"biz", 6>> \in obs.cyc.alerts

\* C24: a store error on a single item (the insert of one notice, the
\* crawl-state or error-counter update of one source, mark_notified of one
\* notice, the delivery-log check or write for one recipient) skips only
\* that item: a cycle in which a store call returned an error ends only
\* after every source was visited and the broadcast step, the deadline step
\* and the DM pass have run, the DM pass having gone through every notice
\* it read and dealt with every candidate recipient but the one of the
\* failed call.
C24_StoreErrorContained ==
  [][(cycle.pc # "idle" /\ cycle'.pc = "idle" /\ obs'.cyc.faults # {})
       => /\ obs'.cyc.fetched = Sources
          /\ obs'.bcast.done
          /\ obs'.cyc.enriched
          /\ obs'.pass.visited = obs'.pass.notices
          /\ Cardinality(obs'.pass.candidates
                           \ (obs'.pass.attempted \cup obs'.pass.skipped)) <= 1]_vars

\* C25: for one source in one cycle fetch_notices is called at most 4
\* times; the first successful attempt ends the retrying and its result is
\* used; the waits before the first, second and third retry are 2, 4 and 8
\* seconds; the source is a terminal failure of the cycle exactly when all
\* 4 attempts fail, and no wait follows the last failed attempt.
C25_RetryBudget ==
  (obs.fetch.seen /\ SourceOrder[1] \in obs.cyc.fetched)
    => LET r == obs.fetch.results
           o == obs.fetch.out
           good == {i \in 1..4 : r[i].ok}
           i1 == IF good = {} THEN 5 ELSE CHOOSE i \in good : \A j \in good : i <= j
       IN /\ o.attempts <= 4
          /\ good # {} => /\ o.attempts = i1
                          /\ o.result = r[i1]
                          /\ o.waits = SubSeq(<<2, 4, 8>>, 1, i1 - 1)
                          /\ \E n \in 1..Len(notices) :
                               /\ notices[n].source_key = SourceOrder[1]
                               /\ notices[n].notice_id = r[i1].notices[1].notice_id
          /\ good = {} => /\ o.attempts = 4
                          /\ ~o.result.ok
                          /\ o.waits = <<2, 4, 8>>
          /\ (SourceOrder[1] \in obs.cyc.failed) <=> (good = {})

\* A fetch whose first two attempts failed and whose third returned a page:
\* no fourth attempt was made although it would have returned another page,
\* the waits were 2 and 4 seconds, and the notice of the third attempt is in
\* the store, that of the fourth is not.
C25_Witness ==
  /\ obs.fetch.seen
  /\ "biz" \in obs.cyc.fetched
  /\ ~obs.fetch.results[1].ok /\ ~obs.fetch.results[2].ok
  /\ obs.fetch.results[3].notices = <<RawB>>
  /\ obs.fetch.results[4].notices = <<RawA>>
  /\ obs.fetch.out.attempts = 3
  /\ obs.fetch.out.waits = <<2, 4>>
  /\ "biz" \notin obs.cyc.failed
  /\ Len(notices) = 1
  /\ notices[1].notice_id = RawB.notice_id

C27_DeadlineSetOnce ==
  [][\A i \in 1..Len(notices) :
       notices[i].deadline # NoDeadline => notices'[i].deadline = notices[i].deadline]_vars

\* C28: after a notice row has been created no operation changes its
\* surrogate id (its place in the table), source key, source-local id,
\* title, url, author, category, published date or crawl timestamp (only
\* notified and deadline can change), and the stored category is classify
\* applied to the title the notice was inserted with.
C28_RowFrame ==
  /\ [][\A i \in 1..Len(notices) :
          /\ i <= Len(notices')
          /\ notices'[i].source_key = notices[i].source_key
          /\ notices'[i].notice_id = notices[i].notice_id
          /\ notices'[i].title = notices[i].title
          /\ notices'[i].url = notices[i].url
          /\ notices'[i].author = notices[i].author
          /\ notices'[i].category = notices[i].category
          /\ notices'[i].published = notices[i].published
          /\ notices'[i].crawled_at = notices[i].crawled_at]_vars
  /\ [](\A i \in 1..Len(notices) : notices[i].category = classify(notices[i].title))
  /\ [][\A i \in (1..Len(notices')) \ (1..Len(notices)) :
          /\ notices'[i].crawled_at = now
          /\ ~notices'[i].notified
          /\ notices'[i].deadline = NoDeadline]_vars

\* A row inserted on day 0 that was broadcast, whose deadline was set, and
\* that a page of day 1 showed again: with it the first row, hit again under
\* another title, url, author and date, still holds what it was inserted with.
C28_Witness ==
  /\ now >= 1
  /\ \E i \in 1..Len(notices) :
       /\ notices[i].notified
       /\ notices[i].deadline # NoDeadline
       /\ notices[i].crawled_at = 0
  /\ \E i \in obs.rehit :
       /\ notices[i].title = RawA.title
       /\ notices[i].url = RawA.url
       /\ notices[i].author = RawA.author
       /\ notices[i].published = RawA.date
       /\ notices[i].category = classify(RawA.title)
       /\ notices[i].crawled_at = 0

\* C29 as stated: the notices of a page are those of the rows of the first
\* candidate, in the order of table_selectors, that matches at least one
\* row, and there are none when no candidate matches a row.
C29_Original ==
  (obs.fetch.seen /\ obs.fetch.result.ok)
    => LET d == obs.fetch.dialect
           candidates == table_selectors(d)
           tables == obs.fetch.resp.body.tables
           out == obs.fetch.result.notices
       IN /\ \A k \in DOMAIN candidates :
               (/\ Select(candidates[k], tables, 1) # << >>
                /\ \A j \in 1..(k - 1) : Select(candidates[j], tables, 1) = << >>)
                 => out = ParseRows(d, Select(candidates[k], tables, 1), 1)
          /\ (\A k \in DOMAIN candidates : Select(candidates[k], tables, 1) = << >>)
               => out = << >>

\* C29: the selector candidates are tried in their fixed order and the
\* notices of a page are those of the rows of the first candidate that
\* yields at least one notice: a candidate that matches no row, or whose
\* matched rows all are skipped, is passed over; once a candidate has
\* yielded a notice no later candidate is consulted, and rows matched by
\* different candidates are never combined in one result.
C29_FirstYielding ==
  (obs.fetch.seen /\ obs.fetch.result.ok)
    => LET d == obs.fetch.dialect
           candidates == table_selectors(d)
           tables == obs.fetch.resp.body.tables
           out == obs.fetch.result.notices
       IN /\ \A k \in DOMAIN candidates :
               (/\ ParseRows(d, Select(candidates[k], tables, 1), 1) # << >>
                /\ \A j \in 1..(k - 1) :
                     ParseRows(d, Select(candidates[j], tables, 1), 1) = << >>)
                 => out = ParseRows(d, Select(candidates[k], tables, 1), 1)
          /\ (\A k \in DOMAIN candidates :
                 ParseRows(d, Select(candidates[k], tables, 1), 1) = << >>)
               => out = << >>

\* An egov page with a plain table of two rows, one of them read, before a
\* table.bbs-list of one row: the second candidate gave the notice of the
\* table.bbs-list alone, and the rows which the last candidate matches in
\* both tables were not consulted.
C29_Witness ==
  /\ obs.fetch.seen
  /\ obs.fetch.result.ok
  /\ obs.fetch.dialect = "egov"
  /\ obs.fetch.resp.body.tables =
       << [class |-> "plain", rows |-> <<RowNoId, RowGood2>>],
          [class |-> "bbs-list", rows |-> <<RowGood1>>] >>
  /\ Len(obs.fetch.result.notices) = 1
  /\ obs.fetch.result.notices[1].notice_id = "1"
  /\ Len(notices) = 1

\* C30: a fetch that succeeds but yields zero notices is handled as a
\* successful crawl: after it the error counter of the source is 0, no
\* alert was raised for it, no notice was stored, and the stored watermark
\* of the source is what it was.
C30_EmptyFetchIsSuccess ==
  [][(/\ cycle.pc = "crawl"
      /\ cycle.src = 1
      /\ cycle' # cycle
      /\ obs'.fetch.seen
      /\ obs'.fetch.result.ok
      /\ obs'.fetch.result.notices = << >>)
       => /\ crawl_state'[SourceOrder[1]].exists
          /\ crawl_state'[SourceOrder[1]].error_count = 0
          /\ crawl_state'[SourceOrder[1]].last_notice_id
               = crawl_state[SourceOrder[1]].last_notice_id
          /\ crawl_state'[SourceOrder[1]].last_crawled = now
          /\ obs'.cyc.alerts = obs.cyc.alerts
          /\ SourceOrder[1] \notin obs'.cyc.failed
          /\ notices' = notices
          /\ cycle'.pc = "crawl" /\ cycle'.src = 2]_vars

\* A source whose page gave the notice "1" on day 0 and on a later day
\* answered 200 with rows from which no notice comes: its crawl of that
\* day counts as done, its counter is 0, and its watermark still is "1".
C30_Witness ==
  /\ obs.fetch.seen
  /\ obs.fetch.result.ok
  /\ obs.fetch.result.notices = << >>
  /\ obs.fetch.resp.body.text = "html"
  /\ SourceOrder[1] \in obs.cyc.fetched
  /\ crawl_state[SourceOrder[1]].last_notice_id = "1"
  /\ crawl_state[SourceOrder[1]].last_crawled >= 1
  /\ crawl_state[SourceOrder[1]].error_count = 0
  /\ Len(notices) = 1
  /\ notices[1].crawled_at = 0

\* C31: after a successful fetch that returned a non-empty sequence the
\* watermark of the source is the id of the most recent raw notice of that
\* sequence, also when the page begins with a pinned row that is older
\* than the rows after it.
C31_WatermarkIsNewest ==
  (obs.fetch.seen /\ obs.fetch.result.ok /\ obs.fetch.result.notices # << >>)
    => \E k \in DOMAIN obs.fetch.result.notices :
         /\ \A j \in DOMAIN obs.fetch.result.notices :
              PublishedDay(obs.fetch.result.notices[j])
                <= PublishedDay(obs.fetch.result.notices[k])
         /\ crawl_state[SourceOrder[1]].last_notice_id
              = obs.fetch.result.notices[k].notice_id

\* C32: the crawl timestamp of a source changes only when a crawl of that
\* source succeeds: a step that changes it is the crawl of the source in
\* this cycle, and that crawl did not fail.
C32_TimestampOfSuccess ==
  [][\A s \in Sources :
       crawl_state'[s].last_crawled # crawl_state[s].last_crawled
         => /\ cycle.pc = "crawl"
            /\ s = SourceOrder[cycle.src]
            /\ s \in obs'.cyc.fetched
            /\ s \notin obs'.cyc.failed]_vars

\* C33: no interactive command inserts or changes a notice, a notified
\* flag, a deadline, the crawl state or the delivery log, nor moves the
\* cycle or the DM pass: a command changes at most the user row of its
\* sender and one subscription row of that sender.
C33_CommandFrame ==
  [][obs'.ncmd # obs.ncmd
       => /\ notices' = notices
          /\ crawl_state' = crawl_state
          /\ dm_log' = dm_log
          /\ now' = now
          /\ cycle' = cycle
          /\ dm' = dm
          /\ \E u \in Users :
               /\ \A t \in Users \ {u} : users'[t] = users[t]
               /\ LET added == (keyword_subs' \ keyword_subs) \cup (source_subs' \ source_subs)
                      removed == (keyword_subs \ keyword_subs') \cup (source_subs \ source_subs')
                  IN /\ Cardinality(added \cup removed) <= 1
                     /\ \A row \in added \cup removed : row[1] = u]_vars

\* Commands were handled while a cycle was at its DM pass, with a notice
\* stored and broadcast, a DM logged and a subscription held.
C33_Witness ==
  /\ obs.ncmd >= 2
  /\ cycle.pc = "dm"
  /\ dm.pc # "off"
  /\ \E i \in 1..Len(notices) : notices[i].notified
  /\ dm_log # {}
  /\ keyword_subs # {}
  /\ source_subs # {}

\* C34: the crawl loop and the front end use one shared store object
\* behind one mutual-exclusion boundary: there is never a second store
\* instance, and no store operation of a command handler runs while a
\* store operation of the crawl cycle is in progress.
C34_OneStoreOneLock ==
  /\ [](Cardinality(StoreInstances) <= 1)
  /\ [][obs'.ncmd # obs.ncmd => obs.inop = "none"]_vars

\* C35: extract_deadline returns a date or no result for every title and
\* never aborts, so the deadline step never ends the cycle early: the step
\* that leaves it goes to the DM step.
C35_EnrichBestEffort ==
  /\ [](\A i \in 1..Len(notices) :
          extract_deadline(notices[i].title, RefYear) # PANIC)
  /\ [][(cycle.pc = "deadline" /\ cycle'.pc # "deadline") => cycle'.pc = "dm"]_vars

\* C36: within one DM pass, after a user has been deactivated because a
\* send to that user was permanently rejected (and has not come back with
\* a command since), no further send to that user is attempted in the rest
\* of the pass.
C36_NoSendAfterDeactivation ==
  [][\A a \in obs'.pass.attempted \ obs.pass.attempted :
       ~(/\ a[2] \in obs.quiet
         /\ ~users[a[2]].is_active
         /\ \E f \in obs.pass.failed : f[2] = a[2])]_vars

\* C38: a keyword-matched DM is sent only to a user who holds that keyword
\* subscription at the moment of the send.
C38_SendToCurrentSubscriber ==
  [][(/\ dm.pc = "send"
      /\ obs'.pass.attempted # obs.pass.attempted
      /\ Head(dm.matches).match_type = "keyword")
       => <<Head(dm.matches).telegram_id, Head(dm.matches).match_value>> \in keyword_subs]_vars

\* C37: if crawl cycles keep running, every stored notice whose broadcast
\* send succeeds when it is tried eventually is notified, also when more
\* notices are pending than a cycle reads and when other pending notices
\* can never be sent.
C37_EventuallyBroadcast ==
  \A i \in 1..5 :
    (i <= Len(notices) /\ notices[i].source_key = SourceOrder[1] /\ ~notices[i].notified)
      ~> (i <= Len(notices) /\ notices[i].notified)

\* C39: in serve mode the crawl loop never stops by itself: every cycle
\* that is in progress ends, also one that meets a store failure or a
\* source with an unknown parser dialect, and after it a next cycle starts.
C39_LoopNeverStops ==
  /\ [](cycle.pc # "idle" => <>(cycle.pc = "idle"))
  /\ []<>(cycle.pc = "crawl" /\ cycle.src = 1)

====
